---- MODULE Spec2Model ----
(***************************************************************************)
(* Model of the text-processing core of terraform-migration-scripts:       *)
(*   tf_splitter.py       block extraction, classification, splitting      *)
(*   generate_outputs.py  resource scan and depth-zero attribute scan      *)
(*   dependency_graph.py  resource scan over a directory, reference edges  *)
(*                                                                         *)
(* Text is modelled as a sequence of lines, a line as an indentation flag  *)
(* and a sequence of tokens.  A token stands for a piece of text:          *)
(*   hdr    kind "type" "name" {      (the header's own opening brace      *)
(*                                     is part of the token)               *)
(*   open   sub {                     (an opening brace)                   *)
(*   close  }                         (a closing brace)                    *)
(*   attr   name = "value"                                                 *)
(*   ref    x = seg1.seg2.seg3...     (a dotted chain of identifiers)      *)
(* A type name is a sequence of text chunks; its text is their             *)
(* concatenation, so str.startswith is the prefix relation on chunks.      *)
(***************************************************************************)
EXTENDS Integers, Sequences, FiniteSets, TLC

VARIABLES
    pc,              \* position of the running tool
    config,          \* the classification configuration (mappings, default_file, skip_types)
    type_to_file,    \* build_type_to_file_map's result (an insertion-ordered dict)
    resource_type,   \* get_target_file: the declared type being classified
    target,          \* get_target_file: the result
    content,         \* tf_splitter: the lines of the input file
    i,               \* parse_tf_blocks: the scan index (1-based here)
    blocks,          \* parse_tf_blocks: the list of block tuples
    starts,          \* history: the line at which each block of `blocks` was found
    file_blocks,     \* split_terraform_file: bucket -> list of block texts (ordered dict)
    skipped,         \* split_terraform_file: list of skipped (type, name)
    written,         \* split_terraform_file: the files written, in writing order
    output_dir,      \* the output directory in the file system: "absent" or "present"
    dry_run,         \* main: args.dry_run
    input_exists,    \* main: input_file.exists()
    stdout,          \* main: the announcement printed for --dry-run
    concat_order,    \* round trip: the order in which the written files are concatenated
    reparsed,        \* round trip: parse_tf_blocks of the concatenation
    main_tf,         \* generate_outputs: TerraformParser.content, as lines
    match_idx,       \* TerraformParser.parse: the next match of RESOURCE_PATTERN
    parsed,          \* TerraformParser.parse: resources, type -> list of ParsedResource
    attr_calls,      \* history: the calls of _extract_top_level_attribute and their results
    resource_configs, \* generate_outputs: the schema, a list of ResourceTypeConfig
    locals_tf,       \* OutputGenerator.generate_locals: the lines of the returned text
    outputs_tf,      \* OutputGenerator.generate_outputs: the lines of the returned text
    terraform,       \* validate_migration: what the terraform plan run does (environment)
    plan_run,        \* run_terraform_command: (success, stdout, stderr)
    plan_result,     \* terraform_plan: (is_clean, resource_changes)
    errors,          \* RGValidator.errors
    printed,         \* RGValidator._check_plan: the messages printed
    tf_files,        \* dependency_graph: the .tf files of the directory, in glob order
    file_idx,        \* TerraformDependencyParser.parse: the next file
    resources,       \* TerraformDependencyParser.resources (ordered dict id -> body)
    dependencies,    \* TerraformDependencyParser.dependencies (ordered dict id -> set)
    dot,             \* DotGraphGenerator.generate: the lines of the returned text
    tree,            \* TextTreeGenerator.generate: the lines of the returned text
    tree_roots,      \* TextTreeGenerator.generate: sorted(roots)
    tree_calls,      \* history: the calls of print_tree, in order
    mermaid          \* MermaidGraphGenerator.generate: the lines of the returned text

cfgVars == <<config, type_to_file>>
classifierVars == <<resource_type, target>>
mainVars == <<dry_run, input_exists, stdout>>
roundTripVars == <<concat_order, reparsed>>
splitterVars ==
    <<content, i, blocks, starts, file_blocks, skipped, written, output_dir,
      mainVars, roundTripVars>>
genVars == <<main_tf, match_idx, parsed, attr_calls, resource_configs, locals_tf, outputs_tf>>
graphVars == <<tree, tree_roots, tree_calls, mermaid>>
depVars == <<tf_files, file_idx, resources, dependencies, dot, graphVars>>
valVars == <<terraform, plan_run, plan_result, errors, printed>>

vars == <<pc, cfgVars, classifierVars, splitterVars, genVars, depVars, valVars>>

(***************************************************************************)
(* Bounds                                                                  *)
(***************************************************************************)
MaxRules == 2        \* (bucket, type) entries in a mapping table
MaxLines == 4        \* lines of an input file of the splitter
MaxGenLines == 5     \* lines of an input file of generate_outputs
MaxLocalsLines == 4  \* lines of an input file of generate_outputs when locals.tf is generated
MaxDepBlocks == 3    \* resource blocks in a directory of dependency_graph
MaxFiles == 2        \* .tf files in a directory of dependency_graph
MaxTreeBlocks == 4   \* resource blocks of a file whose graph is rendered as tree or flowchart
MaxScanLines == 4    \* lines of a text that the three scanners read
MaxChanges == 2      \* resources to add, to change, to destroy in a plan

(***************************************************************************)
(* Python values                                                           *)
(***************************************************************************)
None == "<None>"
\* None where a type name is expected; the header patterns admit no empty type name
NoType == <<>>

Min(S) == CHOOSE m \in S : \A n \in S : m <= n
Max(S) == CHOOSE m \in S : \A n \in S : m >= n

Range(s) == {s[k] : k \in 1..Len(s)}

SeqsUpTo(S, n) == UNION {[1..k -> S] : k \in 0..n}

\* An insertion-ordered dict is a sequence of <<key, value>> pairs with distinct keys.
DictKeys(d) == {d[k][1] : k \in 1..Len(d)}
DictHas(d, key) == key \in DictKeys(d)
DictIndex(d, key) == CHOOSE k \in 1..Len(d) : d[k][1] = key
DictGet(d, key) == d[DictIndex(d, key)][2]
\* d[key] = value: an existing key keeps its position, a new key goes last.
DictSet(d, key, value) ==
    IF DictHas(d, key)
    THEN [d EXCEPT ![DictIndex(d, key)] = <<key, value>>]
    ELSE Append(d, <<key, value>>)

\* str.startswith on type names.
StartsWith(s, p) == Len(p) <= Len(s) /\ SubSeq(s, 1, Len(p)) = p

(***************************************************************************)
(* Inputs of the classifier                                                *)
(***************************************************************************)
T_MSSQL == <<"azurerm_mssql">>
T_MSSQL_SERVER == <<"azurerm_mssql", "_server">>
T_MSSQL_SERVER_POLICY == <<"azurerm_mssql", "_server", "_extended_auditing_policy">>
T_VNET == <<"azurerm_virtual_network">>
T_SUBNET == <<"azurerm_subnet">>

Types == {T_MSSQL, T_MSSQL_SERVER, T_MSSQL_SERVER_POLICY, T_VNET, T_SUBNET}

Files == {"networking.tf", "databases-sql.tf"}
DefaultFiles == {"other.tf", "networking.tf"}

Rule(filename, rtype) == [filename |-> filename, rtype |-> rtype]

\* config['mappings'] is a dict bucket -> list of types.  It is modelled by its
\* entries in iteration order (buckets in order, types in order within a bucket):
\* a sequence of (filename, rtype) in which the entries of one bucket are adjacent.
IsMappings(m) ==
    \A a, b, c \in 1..Len(m) :
        (a < b /\ b < c /\ m[a].filename = m[c].filename) => m[b].filename = m[a].filename

Mappings == {m \in SeqsUpTo({Rule(f, t) : f \in Files, t \in Types}, MaxRules) : IsMappings(m)}

SkipLists == {<<>>} \cup {<<t>> : t \in Types}

Configs ==
    {[mappings |-> m, default_file |-> d, skip_types |-> s] :
        m \in Mappings, d \in DefaultFiles, s \in SkipLists}

(***************************************************************************)
(* tf_splitter.py: classification                                          *)
(***************************************************************************)
RECURSIVE BuildFrom(_, _)
BuildFrom(m, acc) ==
    IF m = <<>> THEN acc
    ELSE BuildFrom(Tail(m), DictSet(acc, Head(m).rtype, Head(m).filename))

build_type_to_file_map(cfg) == BuildFrom(cfg.mappings, <<>>)

PrefixMatches(rtype, t2f) == {k \in 1..Len(t2f) : StartsWith(rtype, t2f[k][1])}

\* get_target_file whose prefix scan returns the last match
get_target_file_last_prefix(rtype, t2f, default_file, skip_types) ==
    IF rtype \in Range(skip_types) THEN None
    ELSE IF DictHas(t2f, rtype) THEN DictGet(t2f, rtype)
    ELSE IF PrefixMatches(rtype, t2f) # {}
         THEN t2f[Max(PrefixMatches(rtype, t2f))][2]
    ELSE default_file

\* get_target_file whose prefix scan returns the longest match
get_target_file_longest_prefix(rtype, t2f, default_file, skip_types) ==
    IF rtype \in Range(skip_types) THEN None
    ELSE IF DictHas(t2f, rtype) THEN DictGet(t2f, rtype)
    ELSE IF PrefixMatches(rtype, t2f) # {}
         THEN t2f[CHOOSE k \in PrefixMatches(rtype, t2f) :
                     \A l \in PrefixMatches(rtype, t2f) : Len(t2f[l][1]) <= Len(t2f[k][1])][2]
    ELSE default_file

\* get_target_file with the prefix scan done before the exact lookup
get_target_file_prefix_first(rtype, t2f, default_file, skip_types) ==
    IF rtype \in Range(skip_types) THEN None
    ELSE IF PrefixMatches(rtype, t2f) # {}
         THEN t2f[Min(PrefixMatches(rtype, t2f))][2]
    ELSE IF DictHas(t2f, rtype) THEN DictGet(t2f, rtype)
    ELSE default_file

\* get_target_file that falls off its end without returning default_file
get_target_file_no_default(rtype, t2f, default_file, skip_types) ==
    IF rtype \in Range(skip_types) THEN None
    ELSE IF DictHas(t2f, rtype) THEN DictGet(t2f, rtype)
    ELSE IF PrefixMatches(rtype, t2f) # {}
         THEN t2f[Min(PrefixMatches(rtype, t2f))][2]
    ELSE None

\* what a dict lookup of a missing key raises
KeyError == "<KeyError>"

\* get_target_file that looks every type up in the mapping table: an unmapped
\* type is a missing key
get_target_file_lookup_only(rtype, t2f, default_file, skip_types) ==
    IF rtype \in Range(skip_types) THEN None
    ELSE IF DictHas(t2f, rtype) THEN DictGet(t2f, rtype)
    ELSE KeyError

\* get_target_file that looks at skip_types only after the mapping table
get_target_file_skip_last(rtype, t2f, default_file, skip_types) ==
    IF DictHas(t2f, rtype) THEN DictGet(t2f, rtype)
    ELSE IF PrefixMatches(rtype, t2f) # {}
         THEN t2f[Min(PrefixMatches(rtype, t2f))][2]
    ELSE IF rtype \in Range(skip_types) THEN None
    ELSE default_file

get_target_file(rtype, t2f, default_file, skip_types) ==
    IF rtype \in Range(skip_types) THEN None
    ELSE IF DictHas(t2f, rtype) THEN DictGet(t2f, rtype)
    ELSE IF PrefixMatches(rtype, t2f) # {}
         THEN t2f[Min(PrefixMatches(rtype, t2f))][2]
    ELSE default_file

(***************************************************************************)
(* Text: tokens and lines                                                  *)
(***************************************************************************)
Hdr(kind, rtype, name) == [k |-> "hdr", kind |-> kind, rtype |-> rtype, name |-> name]
OpenTok == [k |-> "open"]
CloseTok == [k |-> "close"]
Attr(name, value) == [k |-> "attr", name |-> name, value |-> value]
Ref(segs) == [k |-> "ref", segs |-> segs]

Line(indent, toks) == [indent |-> indent, toks |-> toks]

NL == [k |-> "nl"]

\* the number of '{' and of '}' characters of a piece of text
Opens(toks) == Cardinality({n \in 1..Len(toks) : toks[n].k \in {"hdr", "open"}})
Closes(toks) == Cardinality({n \in 1..Len(toks) : toks[n].k = "close"})
CountOpen(line) == Opens(line.toks)
CountClose(line) == Closes(line.toks)

\* '\n'.join(lines) as one token stream; indentation is white space
RECURSIVE Stream(_)
Stream(lines) ==
    IF lines = <<>> THEN <<>>
    ELSE IF Len(lines) = 1 THEN lines[1].toks
    ELSE lines[1].toks \o <<NL>> \o Stream(Tail(lines))

\* text.split('\n'): the token lines of a token stream
RECURSIVE SplitNL(_, _)
SplitNL(stream, cur) ==
    IF stream = <<>> THEN <<cur>>
    ELSE IF Head(stream).k = "nl" THEN <<cur>> \o SplitNL(Tail(stream), <<>>)
    ELSE SplitNL(Tail(stream), Append(cur, Head(stream)))

ResourceKinds == {"resource", "data"}
OtherKinds == {"variable", "output", "locals", "terraform", "provider", "module"}

(***************************************************************************)
(* tf_splitter.py: block extraction                                        *)
(***************************************************************************)
\* re.match(resource_pattern, line): anchored at the first character of the line
MatchResource(line) ==
    /\ ~line.indent
    /\ line.toks # <<>>
    /\ line.toks[1].k = "hdr"
    /\ line.toks[1].kind \in ResourceKinds

\* re.match(other_block_pattern, line)
MatchOther(line) ==
    /\ ~line.indent
    /\ line.toks # <<>>
    /\ line.toks[1].k = "hdr"
    /\ line.toks[1].kind \in OtherKinds

\* the loop that ends the block at the first line that holds a '}'
RECURSIVE ExtractFrom_first_close(_, _, _, _)
ExtractFrom_first_close(lines, n, brace_count, started) ==
    IF n > Len(lines) THEN Len(lines)
    ELSE IF CountClose(lines[n]) > 0 THEN n
    ELSE ExtractFrom_first_close(lines, n + 1, brace_count, started)

\* The for loop of extract_block from line n on, with brace_count and started as
\* they are before line n.  Returns the index of the block's last line.
RECURSIVE ExtractFrom(_, _, _, _)
ExtractFrom(lines, n, brace_count, started) ==
    IF n > Len(lines) THEN Len(lines)
    ELSE LET bc == brace_count + CountOpen(lines[n]) - CountClose(lines[n])
             st == started \/ CountOpen(lines[n]) > 0
         IN  IF st /\ bc = 0 THEN n
             ELSE ExtractFrom(lines, n + 1, bc, st)

\* extract_block that counts braces from 1 on the lines after the header only
extract_block_after_header(lines, start_idx) ==
    LET end_idx == ExtractFrom(lines, start_idx + 1, 1, TRUE)
    IN  [block_lines |-> SubSeq(lines, start_idx, end_idx), end_idx |-> end_idx]

\* '{' minus '}' over lines s..e
RECURSIVE NetBraces(_, _, _)
NetBraces(lines, s, e) ==
    IF s > e THEN 0
    ELSE CountOpen(lines[s]) - CountClose(lines[s]) + NetBraces(lines, s + 1, e)

\* extract_block that gives up on a block whose braces never balance: header line only
extract_block_giving_up(lines, start_idx) ==
    LET end_idx == ExtractFrom(lines, start_idx, 0, FALSE)
    IN  IF NetBraces(lines, start_idx, end_idx) = 0
        THEN [block_lines |-> SubSeq(lines, start_idx, end_idx), end_idx |-> end_idx]
        ELSE [block_lines |-> <<lines[start_idx]>>, end_idx |-> end_idx]

\* extract_block(lines, start_idx) -> (block_lines, end_index)
extract_block(lines, start_idx) ==
    LET end_idx == ExtractFrom(lines, start_idx, 0, FALSE)
    IN  [block_lines |-> SubSeq(lines, start_idx, end_idx), end_idx |-> end_idx]

\* the tuple parse_tf_blocks appends; block_text is '\n'.join(block_lines)
Block(block_type, rtype, name, block_text) ==
    [block_type |-> block_type, resource_type |-> rtype,
     resource_name |-> name, block_text |-> block_text]

\* where the scan resumes after a block
ResumeAfter(end_idx) == end_idx + 1

\* The while loop of parse_tf_blocks from line n on, blocks being the list so far.
RECURSIVE ParseFrom(_, _, _)
ParseFrom(lines, n, acc) ==
    IF n > Len(lines) THEN acc
    ELSE IF MatchResource(lines[n])
         THEN LET h == lines[n].toks[1]
                  e == extract_block(lines, n)
              IN  ParseFrom(lines, ResumeAfter(e.end_idx),
                            Append(acc, Block(h.kind, h.rtype, h.name, e.block_lines)))
    ELSE IF MatchOther(lines[n])
         THEN LET h == lines[n].toks[1]
                  e == extract_block(lines, n)
              IN  ParseFrom(lines, ResumeAfter(e.end_idx),
                            Append(acc, Block(h.kind, NoType, h.name, e.block_lines)))
    ELSE ParseFrom(lines, n + 1, acc)

\* parse_tf_blocks(content), content given as content.split('\n')
parse_tf_blocks(lines) == ParseFrom(lines, 1, <<>>)

(***************************************************************************)
(* tf_splitter.py: grouping and writing                                    *)
(***************************************************************************)
\* the dedicated files with locals blocks put with the variables
SpecialFile_locals_with_variables(block_type) ==
    CASE block_type = "terraform" -> "versions.tf"
      [] block_type = "provider" -> "providers.tf"
      [] block_type \in {"variable", "locals"} -> "variables.tf"
      [] block_type = "output" -> "outputs.tf"
      [] block_type = "module" -> "modules.tf"

\* the dedicated file of a special block kind
SpecialFile(block_type) ==
    CASE block_type = "terraform" -> "versions.tf"
      [] block_type = "provider" -> "providers.tf"
      [] block_type = "variable" -> "variables.tf"
      [] block_type = "output" -> "outputs.tf"
      [] block_type = "locals" -> "locals.tf"
      [] block_type = "module" -> "modules.tf"

\* file_blocks[key].insert(0, text): the newest block first
DictAppend_front(d, key, text) ==
    IF DictHas(d, key)
    THEN DictSet(d, key, <<text>> \o DictGet(d, key))
    ELSE DictSet(d, key, <<text>>)

\* file_blocks[key].append(text) on a defaultdict(list)
DictAppend(d, key, text) ==
    IF DictHas(d, key)
    THEN DictSet(d, key, Append(DictGet(d, key), text))
    ELSE DictSet(d, key, <<text>>)

\* PlaceResource without the else: a skipped block is also put in the default bucket
PlaceResource_no_else(b, g, t2f, cfg) ==
    LET tgt == get_target_file(b.resource_type, t2f, cfg.default_file, cfg.skip_types)
    IN  IF tgt = None
        THEN [g EXCEPT !.skipped = Append(@, <<b.resource_type, b.resource_name>>),
                       !.file_blocks = DictAppend(@, cfg.default_file, b.block_text)]
        ELSE [g EXCEPT !.file_blocks = DictAppend(@, tgt, b.block_text)]

\* Where one resource/data block goes: into a bucket or onto the skipped list.
PlaceResource(b, g, t2f, cfg) ==
    LET tgt == get_target_file(b.resource_type, t2f, cfg.default_file, cfg.skip_types)
    IN  IF tgt = None
        THEN [g EXCEPT !.skipped = Append(@, <<b.resource_type, b.resource_name>>)]
        ELSE [g EXCEPT !.file_blocks = DictAppend(@, tgt, b.block_text)]

\* The loop over the blocks; g holds file_blocks, special_blocks and skipped.
RECURSIVE GroupFrom(_, _, _, _)
GroupFrom(bs, g, t2f, cfg) ==
    IF bs = <<>> THEN g
    ELSE LET b == Head(bs)
         IN  IF b.block_type \in ResourceKinds
             THEN GroupFrom(Tail(bs), PlaceResource(b, g, t2f, cfg), t2f, cfg)
             ELSE GroupFrom(Tail(bs),
                            [g EXCEPT !.special_blocks =
                                Append(@, <<SpecialFile(b.block_type), b.block_text>>)],
                            t2f, cfg)

\* "Add special blocks to file_blocks"
RECURSIVE AddSpecial(_, _)
AddSpecial(sp, fb) ==
    IF sp = <<>> THEN fb
    ELSE AddSpecial(Tail(sp), DictAppend(fb, Head(sp)[1], Head(sp)[2]))

\* file_blocks and skipped as they are when the files are written
GroupBlocks(bs, t2f, cfg) ==
    LET g == GroupFrom(bs, [file_blocks |-> <<>>, special_blocks |-> <<>>, skipped |-> <<>>],
                       t2f, cfg)
    IN  [file_blocks |-> AddSpecial(g.special_blocks, g.file_blocks),
         resource_blocks |-> g.file_blocks,
         skipped |-> g.skipped]

\* every file name of the model, in the order of Python's string comparison
SortedNames ==
    <<"databases-sql.tf", "locals.tf", "modules.tf", "networking.tf", "other.tf",
      "outputs.tf", "providers.tf", "variables.tf", "versions.tf">>

\* an empty line
BlankLine == Line(FALSE, <<>>)

\* '\n\n'.join(blocks_list), as the lines of the joined text
RECURSIVE JoinBlocks(_)
JoinBlocks(blocks_list) ==
    IF blocks_list = <<>> THEN <<BlankLine>>
    ELSE IF Len(blocks_list) = 1 THEN blocks_list[1]
    ELSE blocks_list[1] \o <<BlankLine>> \o JoinBlocks(Tail(blocks_list))

\* the text of a file written without the trailing newline
FileText_no_newline(blocks_list) == JoinBlocks(blocks_list)

\* what is written to one file: the joined blocks and a trailing newline
FileText(blocks_list) == JoinBlocks(blocks_list) \o <<BlankLine>>

\* the line made of the characters of x followed by those of y
MergeLine(x, y) ==
    Line(IF x.toks = <<>> /\ ~x.indent THEN y.indent ELSE x.indent, x.toks \o y.toks)

\* a + b on texts given as their lines: the last line of a continues with the
\* first line of b
StrCat(a, b) ==
    SubSeq(a, 1, Len(a) - 1) \o <<MergeLine(a[Len(a)], b[1])>> \o Tail(b)

\* the texts ts one after the other
RECURSIVE ConcatTexts(_)
ConcatTexts(ts) ==
    IF ts = <<>> THEN <<BlankLine>>
    ELSE StrCat(Head(ts), ConcatTexts(Tail(ts)))

\* sorted(file_blocks.items()), each written as '\n\n'.join(blocks_list) + '\n'
WriteFiles(fb) ==
    LET present == SelectSeq(SortedNames, LAMBDA f : DictHas(fb, f))
    IN  [n \in 1..Len(present) |->
            [filename |-> present[n],
             blocks_list |-> DictGet(fb, present[n]),
             text |-> FileText(DictGet(fb, present[n]))]]

(***************************************************************************)
(* Inputs of the splitter                                                  *)
(***************************************************************************)
L_RES == Line(FALSE, <<Hdr("resource", T_MSSQL_SERVER, "db")>>)
L_DATA1 == Line(FALSE, <<Hdr("data", T_SUBNET, "sub1"), CloseTok>>)
\* the header line of a block of another kind; locals and terraform have no name
SpecialLine(kind) ==
    Line(FALSE, <<Hdr(kind, NoType,
                      IF kind \in {"locals", "terraform"} THEN None ELSE "main")>>)
L_VAR == SpecialLine("variable")
L_OPEN == Line(TRUE, <<OpenTok>>)
L_CLOSE == Line(FALSE, <<CloseTok>>)
L_INDENTED == Line(TRUE, <<Hdr("resource", T_SUBNET, "sub2")>>)

\* the lines of an input that has blocks of one of the other kinds
SplitLines(kind) == {L_RES, L_DATA1, SpecialLine(kind), L_OPEN, L_CLOSE, L_INDENTED}

\* the configurations of the splitter: at most one rule, which may name the
\* bucket of a special kind; a default bucket that may be one too
SplitRules ==
    {<<>>} \cup {<<Rule(f, t)>> : f \in {"databases-sql.tf", "variables.tf"},
                                  t \in {T_MSSQL, T_SUBNET}}

SplitConfigs ==
    {[mappings |-> m, default_file |-> d, skip_types |-> s] :
        m \in SplitRules, d \in {"other.tf", "variables.tf"},
        s \in {<<>>, <<T_SUBNET>>, <<T_MSSQL_SERVER>>}}

(***************************************************************************)
(* generate_outputs.py: TerraformParser                                    *)
(***************************************************************************)
\* RESOURCE_PATTERN.finditer(content): the positions of the matches, in order.
\* The pattern is not anchored, so indentation does not matter.
ResourceMatches(stream) ==
    SelectSeq([n \in 1..Len(stream) |-> n],
              LAMBDA n : stream[n].k = "hdr" /\ stream[n].kind = "resource")

\* The loop of _extract_block_content from position n on: the position of the
\* closing brace that brings brace_count to 0, or 0 when the text ends first.
RECURSIVE BlockEnd(_, _, _)
BlockEnd(stream, n, brace_count) ==
    IF n > Len(stream) THEN 0
    ELSE IF stream[n].k \in {"hdr", "open"} THEN BlockEnd(stream, n + 1, brace_count + 1)
    ELSE IF stream[n].k = "close"
         THEN IF brace_count - 1 = 0 THEN n
              ELSE BlockEnd(stream, n + 1, brace_count - 1)
    ELSE BlockEnd(stream, n + 1, brace_count)

\* the block content that runs to the end of the text when no brace closes it
extract_block_content_to_eof(stream, start_pos) ==
    LET e == BlockEnd(stream, start_pos, 1)
    IN  IF e = 0 THEN SubSeq(stream, start_pos, Len(stream))
        ELSE SubSeq(stream, start_pos, e - 1)

\* _extract_block_content(start_pos): "" when the closing brace is not found
extract_block_content(stream, start_pos) ==
    LET e == BlockEnd(stream, start_pos, 1)
    IN  IF e = 0 THEN <<>> ELSE SubSeq(stream, start_pos, e - 1)

\* pattern.match(line) for ^\s*<attr_name>\s*=\s*"([^"]+)"
AttrMatch(line, attr_name) ==
    line # <<>> /\ line[1].k = "attr" /\ line[1].name = attr_name

\* the scan that ignores depth: any matching line is returned
RECURSIVE AttrScan_any_depth(_, _, _, _)
AttrScan_any_depth(lines, n, depth, attr_name) ==
    IF n > Len(lines) THEN None
    ELSE IF AttrMatch(lines[n], attr_name) THEN lines[n][1].value
    ELSE AttrScan_any_depth(lines, n + 1, depth, attr_name)

\* the scan that keeps going after a match: the last depth-zero match is returned
RECURSIVE AttrScan_last(_, _, _, _)
AttrScan_last(lines, n, depth, attr_name) ==
    IF n > Len(lines) THEN None
    ELSE LET rest == AttrScan_last(lines, n + 1,
                                   depth + Opens(lines[n]) - Closes(lines[n]), attr_name)
         IN  IF depth = 0 /\ AttrMatch(lines[n], attr_name) /\ rest = None
             THEN lines[n][1].value
             ELSE rest

\* The loop of _extract_top_level_attribute from line n on, depth as before line n.
RECURSIVE AttrScan(_, _, _, _)
AttrScan(lines, n, depth, attr_name) ==
    IF n > Len(lines) THEN None
    ELSE IF depth = 0 /\ AttrMatch(lines[n], attr_name) THEN lines[n][1].value
    ELSE AttrScan(lines, n + 1, depth + Opens(lines[n]) - Closes(lines[n]), attr_name)

\* _extract_top_level_attribute(block_content, attr_name)
extract_top_level_attribute(block_content, attr_name) ==
    AttrScan(SplitNL(block_content, <<>>), 1, 0, attr_name)

\* ParsedResource; vnet_name is None when the object has no _vnet_name
ParsedResource(rtype, name, azure_name, vnet_name) ==
    [resource_type |-> rtype, resource_name |-> name,
     azure_name |-> azure_name, vnet_name |-> vnet_name]

\* the record of one call of _extract_top_level_attribute
AttrCall(block_content, attr_name, result) ==
    [block_content |-> block_content, attr_name |-> attr_name, result |-> result]

(***************************************************************************)
(* generate_outputs.py: OutputGenerator.generate_locals                    *)
(***************************************************************************)
\* a key template is a sequence of placeholders ${attr} and literal text
Placeholder(attr) == [k |-> "placeholder", attr |-> attr]
Literal(text) == [k |-> "literal", text |-> text]

\* key_template of an entry that has none
NoTemplate == <<>>

\* ResourceTypeConfig; the attributes list is used by generate_outputs only
ResourceTypeConfig(terraform_type, output_key, key_attribute, description, key_template) ==
    [terraform_type |-> terraform_type, output_key |-> output_key,
     key_attribute |-> key_attribute, description |-> description,
     key_template |-> key_template]

\* self.config_map = {c.terraform_type: c for c in resource_configs}
RECURSIVE ConfigMapFrom(_, _)
ConfigMapFrom(configs, acc) ==
    IF configs = <<>> THEN acc
    ELSE ConfigMapFrom(Tail(configs), DictSet(acc, Head(configs).terraform_type, Head(configs)))

config_map(configs) == ConfigMapFrom(configs, <<>>)

\* the lines of locals.tf
LText(text) == [k |-> "text", text |-> text]
LSkippedUnknown(rtype, count) == [k |-> "skipped_unknown", rtype |-> rtype, count |-> count]
LDescription(description) == [k |-> "description", description |-> description]
LMapOpen(output_key) == [k |-> "map_open", output_key |-> output_key]
LWarning(resource_name) == [k |-> "warning", resource_name |-> resource_name]
\* tf_ref = f"{resource_type}.{resource.resource_name}"
TfRef(rtype, resource_name) == <<rtype, resource_name>>

LEntry(key, rtype, resource_name) ==
    [k |-> "entry", key |-> key, tf_ref |-> TfRef(rtype, resource_name)]

\* "Generate the map key"; a key is the sequence of its pieces of text
MapKey(type_config, resource) ==
    IF type_config.key_attribute = "composite" /\ type_config.key_template # NoTemplate
    THEN IF resource.vnet_name # None
         THEN <<resource.vnet_name, "/", resource.azure_name>>
         ELSE <<resource.azure_name>>
    ELSE <<resource.azure_name>>

\* the loop over resource_list left at the first resource without a name
RECURSIVE EntryLines_stop_at_unnamed(_, _, _)
EntryLines_stop_at_unnamed(type_config, rtype, resource_list) ==
    IF resource_list = <<>> THEN <<>>
    ELSE LET resource == Head(resource_list)
         IN  IF resource.azure_name = None
             THEN <<LWarning(resource.resource_name)>>
             ELSE <<LEntry(MapKey(type_config, resource), rtype, resource.resource_name)>>
                  \o EntryLines_stop_at_unnamed(type_config, rtype, Tail(resource_list))

\* the loop over resource_list: a warning or an entry for each resource
RECURSIVE EntryLines(_, _, _)
EntryLines(type_config, rtype, resource_list) ==
    IF resource_list = <<>> THEN <<>>
    ELSE LET resource == Head(resource_list)
         IN  (IF resource.azure_name = None
              THEN <<LWarning(resource.resource_name)>>
              ELSE <<LEntry(MapKey(type_config, resource), rtype, resource.resource_name)>>)
             \o EntryLines(type_config, rtype, Tail(resource_list))

\* every type name of the model, in the order of Python's string comparison
SortedTypes == <<T_MSSQL, T_MSSQL_SERVER, T_MSSQL_SERVER_POLICY, T_SUBNET, T_VNET>>

\* the loop over sorted(self.resources.items()) from the n-th type on
RECURSIVE TypeLines(_, _, _)
TypeLines(res, cmap, n) ==
    IF n > Len(SortedTypes) THEN <<>>
    ELSE LET rtype == SortedTypes[n]
         IN  (IF ~DictHas(res, rtype) THEN <<>>
              ELSE IF ~DictHas(cmap, rtype)
                   THEN <<LSkippedUnknown(rtype, Len(DictGet(res, rtype)))>>
              ELSE LET type_config == DictGet(cmap, rtype)
                   IN  <<LText(""), LDescription(type_config.description),
                         LMapOpen(type_config.output_key)>>
                       \o EntryLines(type_config, rtype, DictGet(res, rtype))
                       \o <<LText("  }")>>)
             \o TypeLines(res, cmap, n + 1)

\* generate_locals, as the lines that are joined
generate_locals(res, cmap) ==
    <<LText("# ===="), LText("# LOCALS - Auto-generated by generate_outputs.py"),
      LText("# ===="),
      LText("# This file maps aztfexport resources by their Azure names for easier reference."),
      LText("# DO NOT EDIT MANUALLY - regenerate using the script if main.tf changes."),
      LText("# ===="), LText(""), LText("locals {")>>
    \o TypeLines(res, cmap, 1)
    \o <<LText("}"), LText("")>>

(***************************************************************************)
(* generate_outputs.py: OutputGenerator.generate_outputs                   *)
(***************************************************************************)
\* config.attributes, for the two types of the schemas (DEFAULT_RESOURCE_TYPES)
attributes(type_config) ==
    IF type_config.terraform_type = T_VNET
    THEN <<"id", "name", "location", "resource_group_name", "address_space">>
    ELSE <<"id", "name", "virtual_network_name", "resource_group_name", "address_prefixes">>

\* the lines of outputs.tf
OOutput(output_key) == [k |-> "output", output_key |-> output_key]
ODescription(description) == [k |-> "description", description |-> description]
OFor(output_key) == [k |-> "for", local |-> <<"all_", output_key>>]
OAttr(attr) == [k |-> "attr", attr |-> attr]
OCount(count) == [k |-> "resource_count", count |-> count]
OTypes(types) == [k |-> "resource_types", types |-> types]

\* named_resources = [r for r in resource_list if r.azure_name]
named_resources(resource_list) == SelectSeq(resource_list, LAMBDA r : r.azure_name # None)

\* one output block
OutputBlock(type_config) ==
    <<OOutput(type_config.output_key), ODescription(type_config.description),
      LText("  value = {"), OFor(type_config.output_key)>>
    \o [n \in 1..Len(attributes(type_config)) |-> OAttr(attributes(type_config)[n])]
    \o <<LText("    }"), LText("  }"), LText("}"), LText("")>>

\* the loop over the types without the test of named_resources
RECURSIVE OutputLines_keep_unnamed(_, _, _)
OutputLines_keep_unnamed(res, cmap, n) ==
    IF n > Len(SortedTypes) THEN <<>>
    ELSE LET rtype == SortedTypes[n]
         IN  (IF ~DictHas(res, rtype) \/ ~DictHas(cmap, rtype) THEN <<>>
              ELSE OutputBlock(DictGet(cmap, rtype)))
             \o OutputLines_keep_unnamed(res, cmap, n + 1)

\* the loop over sorted(self.resources.items()) from the n-th type on
RECURSIVE OutputLines(_, _, _)
OutputLines(res, cmap, n) ==
    IF n > Len(SortedTypes) THEN <<>>
    ELSE LET rtype == SortedTypes[n]
         IN  (IF ~DictHas(res, rtype) \/ ~DictHas(cmap, rtype) THEN <<>>
              ELSE IF named_resources(DictGet(res, rtype)) = <<>> THEN <<>>
              ELSE OutputBlock(DictGet(cmap, rtype)))
             \o OutputLines(res, cmap, n + 1)

\* sum(len(r) for r in self.resources.values())
RECURSIVE resource_count(_)
resource_count(res) ==
    IF res = <<>> THEN 0 ELSE Len(Head(res)[2]) + resource_count(Tail(res))

\* "Add metadata output"
MetadataLines(res) ==
    <<LText("# Metadata about this export"), OOutput("_metadata"),
      ODescription("Metadata about this legacy RG export"), LText("  value = {"),
      OCount(resource_count(res)),
      OTypes(SelectSeq(SortedTypes, LAMBDA t : DictHas(res, t))),
      LText("    generated_by   = generate_outputs.py"), LText("  }"), LText("}"),
      LText("")>>

\* generate_outputs, as the lines that are joined
generate_outputs(res, cmap) ==
    <<LText("# ===="), LText("# OUTPUTS - Auto-generated by generate_outputs.py"),
      LText("# ===="), LText("# These outputs expose resources for consumption by:"),
      LText("#   - The subscription-level catalog (merges all RG outputs)"),
      LText("#   - Cross-state references via terraform_remote_state"),
      LText("# DO NOT EDIT MANUALLY - regenerate using the script if main.tf changes."),
      LText("# ===="), LText("")>>
    \o OutputLines(res, cmap, 1)
    \o MetadataLines(res)

(***************************************************************************)

(* dependency_graph.py: TerraformDependencyParser                          *)
(***************************************************************************)
\* resource_id = f"{resource_type}.{resource_name}"
ResourceId(rtype, name) == <<rtype, name>>

ClosesAfter(stream, n) == {c \in (n + 1)..Len(stream) : stream[c].k = "close"}

\* resource_pattern.finditer(content) from position p on.  After the header's
\* brace the pattern takes [^}]* and then '}': a match needs a closing brace
\* after the header and ends at the first one; the next match starts after it.
RECURSIVE ScanResources(_, _, _)
ScanResources(stream, p, res) ==
    LET heads == {h \in p..Len(stream) :
                    /\ stream[h].k = "hdr"
                    /\ stream[h].kind = "resource"
                    /\ ClosesAfter(stream, h) # {}}
    IN  IF heads = {} THEN res
        ELSE LET h == Min(heads)
                 c == Min(ClosesAfter(stream, h))
             IN  ScanResources(stream, c + 1,
                               DictSet(res, ResourceId(stream[h].rtype, stream[h].name),
                                       SubSeq(stream, h + 1, c - 1)))

\* _parse_file with a resources dict of its own for every file
parse_file_own_dict(res, lines) == ScanResources(Stream(lines), 1, <<>>)

\* _parse_file(tf_file): self.resources after the file
parse_file(res, lines) == ScanResources(Stream(lines), 1, res)

ReservedWords == {"var", "local", "data", "module", "each", "count"}

\* ref_pattern.finditer(body): (ref_type, ref_name) of every match, in order.
\* A chain of two or three lower-case identifiers is one match.
RefMatches(body) ==
    LET at == SelectSeq([n \in 1..Len(body) |-> n],
                        LAMBDA n : body[n].k = "ref" /\ Len(body[n].segs) >= 2)
    IN  [n \in 1..Len(at) |->
            [ref_type |-> body[at[n]].segs[1], ref_name |-> body[at[n]].segs[2]]]

\* the type name whose text is the identifier word
TypeNamed(word) == <<word>>

\* dependencies[resource_id].add(ref_id) on a defaultdict(set)
DictAdd(d, key, elem) ==
    IF DictHas(d, key)
    THEN DictSet(d, key, DictGet(d, key) \cup {elem})
    ELSE DictSet(d, key, {elem})

\* one match without the reserved-word test
AddRef_no_keyword_test(res, deps, resource_id, m) ==
    LET ref_id == ResourceId(TypeNamed(m.ref_type), m.ref_name)
    IN  IF DictHas(res, ref_id) /\ ref_id # resource_id
        THEN DictAdd(deps, resource_id, ref_id)
        ELSE deps

\* one match without the self-reference test
AddRef_no_self_test(res, deps, resource_id, m) ==
    IF m.ref_type \in ReservedWords THEN deps
    ELSE LET ref_id == ResourceId(TypeNamed(m.ref_type), m.ref_name)
         IN  IF DictHas(res, ref_id)
             THEN DictAdd(deps, resource_id, ref_id)
             ELSE deps

\* the body of the inner loop of _extract_dependencies for one match
AddRef(res, deps, resource_id, m) ==
    IF m.ref_type \in ReservedWords THEN deps
    ELSE LET ref_id == ResourceId(TypeNamed(m.ref_type), m.ref_name)
         IN  IF DictHas(res, ref_id) /\ ref_id # resource_id
             THEN DictAdd(deps, resource_id, ref_id)
             ELSE deps

RECURSIVE AddRefs(_, _, _, _)
AddRefs(res, deps, resource_id, ms) ==
    IF ms = <<>> THEN deps
    ELSE AddRefs(res, AddRef(res, deps, resource_id, Head(ms)), resource_id, Tail(ms))

\* the outer loop of _extract_dependencies from resource n on
RECURSIVE DepsFrom(_, _, _)
DepsFrom(res, n, deps) ==
    IF n > Len(res) THEN deps
    ELSE DepsFrom(res, n + 1, AddRefs(res, deps, res[n][1], RefMatches(res[n][2])))

extract_dependencies(res) == DepsFrom(res, 1, <<>>)

(***************************************************************************)
(* dependency_graph.py: DotGraphGenerator                                  *)
(***************************************************************************)
\* the lines of the rendering: fixed text, a node statement, an edge statement
DotText(text) == [k |-> "text", text |-> text]
DotNode(id, label, fillcolor) ==
    [k |-> "node", id |-> id, label |-> label, fillcolor |-> fillcolor]
DotEdge(source, dep) == [k |-> "edge", source |-> source, dep |-> dep]

\* resource_id.split('.')[0]; the type names of the model hold no dot
DotTypeOf(resource_id) == resource_id[1]

\* colors.get(resource_type, 'lightgray')
DotColor(rtype) ==
    CASE rtype \in {<<"azurerm_virtual_network">>, <<"azurerm_subnet">>} -> "lightblue"
      [] rtype = <<"azurerm_network_security_group">> -> "orange"
      [] rtype \in {<<"azurerm_linux_virtual_machine">>,
                    <<"azurerm_windows_virtual_machine">>} -> "lightgreen"
      [] rtype = <<"azurerm_storage_account">> -> "yellow"
      [] OTHER -> "lightgray"

\* resource_id.replace('_', '\\n'): the id with a line break for every underscore
DotLabel(resource_id) == [underscores_as_breaks_of |-> resource_id]

\* the orders in which a set can be iterated
SetSeqs(S) == {q \in [1..Cardinality(S) -> S] : Range(q) = S}

\* an iteration order for the set of every entry of dependencies
DepOrders(deps) ==
    {o \in [1..Len(deps) -> UNION {SetSeqs(deps[n][2]) : n \in 1..Len(deps)}] :
        \A n \in 1..Len(deps) : o[n] \in SetSeqs(deps[n][2])}

\* the node loop that stops one short
DotNodeLines_all_but_last(res) ==
    [n \in 1..(Len(res) - 1) |->
        DotNode(res[n][1], DotLabel(res[n][1]), DotColor(DotTypeOf(res[n][1])))]

\* "Add nodes with colors based on type"
DotNodeLines(res) ==
    [n \in 1..Len(res) |->
        DotNode(res[n][1], DotLabel(res[n][1]), DotColor(DotTypeOf(res[n][1])))]

\* "Add edges", the sets iterated in the orders given
RECURSIVE DotEdgeLines(_, _, _)
DotEdgeLines(deps, orders, n) ==
    IF n > Len(deps) THEN <<>>
    ELSE [j \in 1..Len(orders[n]) |-> DotEdge(deps[n][1], orders[n][j])]
         \o DotEdgeLines(deps, orders, n + 1)

\* DotGraphGenerator.generate, as the lines that are joined
DotGenerate(res, deps, orders) ==
    <<DotText("digraph terraform_dependencies {"), DotText("  rankdir=LR;"),
      DotText("  node [shape=box, style=rounded];"), DotText("")>>
    \o DotNodeLines(res)
    \o <<DotText("")>>
    \o DotEdgeLines(deps, orders, 1)
    \o <<DotText("}")>>

(***************************************************************************)
(* dependency_graph.py: TextTreeGenerator                                   *)
(***************************************************************************)
\* the names of the model's graphs as text chunks, in the order of Python's
\* string comparison ('-' < '_' < letters)
N_NSG == <<"nsg">>
N_SUB_DASH == <<"sub", "-", "1">>
N_SUB_UNDER == <<"sub", "_", "1">>
N_VNET == <<"vnet">>
N_ZONE == <<"zone">>
SortedIds ==
    <<ResourceId(T_SUBNET, N_NSG), ResourceId(T_SUBNET, N_SUB_DASH),
      ResourceId(T_SUBNET, N_SUB_UNDER), ResourceId(T_SUBNET, N_VNET),
      ResourceId(T_SUBNET, N_ZONE)>>

\* sorted(ids) for a set of ids
Sorted(ids) == SelectSeq(SortedIds, LAMBDA id : id \in ids)

\* self.parser.dependencies.get(r, set())
DepsOf(deps, r) == IF DictHas(deps, r) THEN DictGet(deps, r) ELSE {}

\* all_deps: the union of the dependency sets
AllDeps(deps) == UNION {deps[n][2] : n \in 1..Len(deps)}

\* sorted(resources.keys(), key=len(dependencies.get(r))): the positions of the
\* keys, by number of dependencies and, the sort being stable, by position
ByFewestDeps(res, deps) ==
    LET before(a, b) ==
            \/ Cardinality(DepsOf(deps, res[a][1])) < Cardinality(DepsOf(deps, res[b][1]))
            \/ /\ Cardinality(DepsOf(deps, res[a][1])) = Cardinality(DepsOf(deps, res[b][1]))
               /\ a < b
    IN  [n \in 1..Len(res) |->
            res[CHOOSE a \in 1..Len(res) :
                    Cardinality({b \in 1..Len(res) : before(b, a)}) = n - 1][1]]

\* roots with a fallback that keeps every resource
TreeRoots_fallback_all(res, deps) ==
    LET roots == DictKeys(res) \ AllDeps(deps)
    IN  IF roots = {} THEN DictKeys(res) ELSE roots

\* roots: the resources that are in no dependency set; if there are none, the
\* first three resources by number of dependencies
TreeRoots(res, deps) ==
    LET roots == DictKeys(res) \ AllDeps(deps)
    IN  IF roots = {}
        THEN LET order == ByFewestDeps(res, deps)
             IN  {order[n] : n \in 1..(IF Len(order) < 3 THEN Len(order) ELSE 3)}
        ELSE roots

\* a line of the tree: prefix, connector (the corner or the tee), resource_id
TreeLine(prefix, is_last, resource_id) ==
    [prefix |-> prefix,
     connector |-> IF is_last THEN "corner" ELSE "tee",
     resource_id |-> resource_id]

\* a call of print_tree and whether it got past the visited test
TreeCall(resource_id, expanded) == [resource_id |-> resource_id, expanded |-> expanded]

\* list(self.parser.dependencies.get(resource_id, [])) in the iteration order given
DepList(deps, orders, resource_id) ==
    IF DictHas(deps, resource_id) THEN orders[DictIndex(deps, resource_id)] ELSE <<>>

\* print_tree(resource_id, prefix, is_last) on the state st of lines, visited
\* and the calls so far; PrintDeps is its loop over deps from the n-th on
RECURSIVE PrintTree(_, _, _, _, _, _)
RECURSIVE PrintDeps(_, _, _, _, _, _)
PrintTree(st, deps, orders, resource_id, prefix, is_last) ==
    IF resource_id \in st.visited
    THEN [st EXCEPT !.calls = Append(@, TreeCall(resource_id, FALSE))]
    ELSE PrintDeps([lines |-> Append(st.lines, TreeLine(prefix, is_last, resource_id)),
                    visited |-> st.visited \cup {resource_id},
                    calls |-> Append(st.calls, TreeCall(resource_id, TRUE))],
                   deps, orders, DepList(deps, orders, resource_id), 1,
                   Append(prefix, IF is_last THEN "blank" ELSE "bar"))

PrintDeps(st, deps, orders, dep_list, n, prefix) ==
    IF n > Len(dep_list) THEN st
    ELSE PrintDeps(PrintTree(st, deps, orders, dep_list[n], prefix, n = Len(dep_list)),
                   deps, orders, dep_list, n + 1, prefix)

\* the loop over the roots with a visited set of its own for every root
RECURSIVE PrintRoots_visited_per_root(_, _, _, _, _)
PrintRoots_visited_per_root(st, deps, orders, roots, n) ==
    IF n > Len(roots) THEN st
    ELSE PrintRoots_visited_per_root(
             PrintTree([st EXCEPT !.visited = {}], deps, orders, roots[n], <<>>,
                       n = Len(roots)),
             deps, orders, roots, n + 1)

\* the loop over enumerate(sorted(roots)) from the n-th root on
RECURSIVE PrintRoots(_, _, _, _, _)
PrintRoots(st, deps, orders, roots, n) ==
    IF n > Len(roots) THEN st
    ELSE PrintRoots(PrintTree(st, deps, orders, roots[n], <<>>, n = Len(roots)),
                    deps, orders, roots, n + 1)

\* TextTreeGenerator.generate: the lines, the visited set and the calls
TreeGenerate(res, deps, orders) ==
    PrintRoots([lines |-> <<DotText("Terraform Resource Dependencies:"), DotText("")>>,
                visited |-> {}, calls |-> <<>>],
               deps, orders, Sorted(TreeRoots(res, deps)), 1)

(***************************************************************************)
(* dependency_graph.py: MermaidGraphGenerator                              *)
(***************************************************************************)
\* f"{resource_type}.{resource_name}" as text chunks
IdText(resource_id) == resource_id[1] \o <<".">> \o resource_id[2]

\* name.replace('.', '_').replace('-', '_')
sanitize(name) ==
    [n \in 1..Len(name) |-> IF name[n] \in {".", "-"} THEN "_" ELSE name[n]]

\* the lines of the flowchart: fixed text, a node with its label, an edge
MermaidNode(safe_id, resource_id) ==
    [k |-> "node", safe_id |-> safe_id, label |-> resource_id]
MermaidEdge(safe_source, safe_dep) ==
    [k |-> "edge", safe_source |-> safe_source, safe_dep |-> safe_dep]

\* "Add nodes"
MermaidNodeLines(res) ==
    [n \in 1..Len(res) |-> MermaidNode(sanitize(IdText(res[n][1])), res[n][1])]

\* "Add edges", the sets iterated in the orders given
RECURSIVE MermaidEdgeLines(_, _, _)
MermaidEdgeLines(deps, orders, n) ==
    IF n > Len(deps) THEN <<>>
    ELSE [j \in 1..Len(orders[n]) |->
             MermaidEdge(sanitize(IdText(deps[n][1])), sanitize(IdText(orders[n][j])))]
         \o MermaidEdgeLines(deps, orders, n + 1)

\* MermaidGraphGenerator.generate, as the lines that are joined
MermaidGenerate(res, deps, orders) ==
    <<DotText("graph LR"), DotText("")>>
    \o MermaidNodeLines(res)
    \o <<DotText("")>>
    \o MermaidEdgeLines(deps, orders, 1)

(***************************************************************************)

(* Inputs of generate_outputs                                              *)
(***************************************************************************)
G_SUBNET == Line(FALSE, <<Hdr("resource", T_SUBNET, "sub1")>>)
G_VNET1 == Line(FALSE, <<Hdr("resource", T_VNET, "vnet1"), Attr("name", "vnet-a"), CloseTok>>)
G_NAME_A == Line(TRUE, <<Attr("name", "sub-a")>>)
G_NAME_B == Line(TRUE, <<Attr("name", "sub-b")>>)
G_OPEN == Line(TRUE, <<OpenTok>>)
G_INLINE == Line(TRUE, <<OpenTok, Attr("name", "inner"), CloseTok>>)
G_CLOSE == Line(FALSE, <<CloseTok>>)

GenLines == {G_SUBNET, G_VNET1, G_NAME_A, G_NAME_B, G_OPEN, G_INLINE, G_CLOSE}

\* the lines of the inputs of generate_locals
G_SUBNET2 == Line(FALSE, <<Hdr("resource", T_SUBNET, "sub2"), Attr("name", "sub-b"), CloseTok>>)
G_VNET_NAME == Line(TRUE, <<Attr("virtual_network_name", "vnet-a")>>)
LocalsLines == {G_SUBNET, G_SUBNET2, G_VNET1, G_NAME_A, G_VNET_NAME, G_OPEN, G_CLOSE}

\* ${virtual_network_name}/${name} and a template with the two the other way round
TemplateVnetName == <<Placeholder("virtual_network_name"), Literal("/"), Placeholder("name")>>
TemplateNameVnet == <<Placeholder("name"), Literal("/"), Placeholder("virtual_network_name")>>

VnetConfig ==
    ResourceTypeConfig(T_VNET, "vnets", "name", "Virtual Networks", NoTemplate)
SubnetConfig(key_attribute, key_template) ==
    ResourceTypeConfig(T_SUBNET, "subnets", key_attribute, "Subnets", key_template)

\* the schemas: the embedded default, one with another template, one that keys
\* subnets by name, one that does not know virtual networks
Schemas ==
    {<<VnetConfig, SubnetConfig("composite", TemplateVnetName)>>,
     <<VnetConfig, SubnetConfig("composite", TemplateNameVnet)>>,
     <<VnetConfig, SubnetConfig("name", NoTemplate)>>,
     <<SubnetConfig("composite", TemplateVnetName)>>}

GenContents == SeqsUpTo(GenLines, MaxGenLines)

(***************************************************************************)
(* Inputs of dependency_graph                                              *)
(***************************************************************************)
T_VAR == <<"var">>

DepHeaders ==
    {Hdr("resource", T_SUBNET, "sub1"), Hdr("resource", T_VAR, "foo"),
     Hdr("data", T_SUBNET, "sub2")}
DepRefs ==
    {Ref(<<"azurerm_subnet", "sub1", "id">>), Ref(<<"azurerm_subnet", "sub2", "id">>),
     Ref(<<"var", "foo">>), Ref(<<"nsg", "id">>)}

\* a well-formed resource block: header, one line with a reference, closing brace
DepBlock(h, r) == <<Line(FALSE, <<h>>), Line(TRUE, <<r>>), Line(FALSE, <<CloseTok>>)>>
DepBlocks == {DepBlock(h, r) : h \in DepHeaders, r \in DepRefs}

RECURSIVE Concat(_)
Concat(ss) == IF ss = <<>> THEN <<>> ELSE Head(ss) \o Concat(Tail(ss))

\* the blocks bs distributed over the files at the cut points cut[1] <= cut[2] <= ...
CutFiles(bs, cut) ==
    [f \in 1..(Len(cut) + 1) |->
        Concat(SubSeq(bs, (IF f = 1 THEN 0 ELSE cut[f - 1]) + 1,
                          IF f = Len(cut) + 1 THEN Len(bs) ELSE cut[f]))]

Cuts(n, len) ==
    {cut \in [1..n -> 0..len] : \A a, b \in 1..n : a <= b => cut[a] <= cut[b]}

(***************************************************************************)
(* Inputs of the tree and flowchart generators                             *)
(***************************************************************************)
\* the names of the resource blocks of a file, in file order
TreeNames == <<N_SUB_UNDER, N_VNET, N_SUB_DASH, N_NSG, N_ZONE>>

\* what a body refers to: nothing, one of the first four resources, or one of
\* two pairs of them
TreeTargets == {N_SUB_UNDER, N_VNET, N_SUB_DASH, N_NSG}
TreeRef(name) == Line(TRUE, <<Ref(<<"azurerm_subnet", name, "id">>)>>)
TreeBodies ==
    {<<>>} \cup {<<TreeRef(t)>> : t \in TreeTargets}
    \cup {<<TreeRef(N_VNET), TreeRef(N_SUB_DASH)>>, <<TreeRef(N_SUB_UNDER), TreeRef(N_NSG)>>}

\* a resource block of type azurerm_subnet: header, reference lines, closing brace
TreeBlock(name, body) ==
    <<Line(FALSE, <<Hdr("resource", T_SUBNET, name)>>)>> \o body
    \o <<Line(FALSE, <<CloseTok>>)>>

(***************************************************************************)

(* State machines                                                          *)
(***************************************************************************)
Unset == "<unset>"
NoConfig == [mappings |-> <<>>, default_file |-> "other.tf", skip_types |-> <<>>]

ConfigIdle ==
    /\ config = NoConfig
    /\ type_to_file = <<>>

ClassifierIdle ==
    /\ resource_type = Unset
    /\ target = Unset

SplitterIdle ==
    /\ content = <<>>
    /\ i = 0
    /\ blocks = <<>>
    /\ starts = <<>>
    /\ file_blocks = <<>>
    /\ skipped = <<>>
    /\ written = <<>>
    /\ output_dir = "absent"
    /\ dry_run = FALSE
    /\ input_exists = TRUE
    /\ stdout = <<>>
    /\ concat_order = <<>>
    /\ reparsed = <<>>

GenIdle ==
    /\ main_tf = <<>>
    /\ match_idx = 0
    /\ parsed = <<>>
    /\ attr_calls = <<>>
    /\ resource_configs = <<>>
    /\ locals_tf = <<>>
    /\ outputs_tf = <<>>

DepIdle ==
    /\ tf_files = <<>>
    /\ file_idx = 0
    /\ resources = <<>>
    /\ dependencies = <<>>
    /\ dot = <<>>
    /\ tree = <<>>
    /\ tree_roots = <<>>
    /\ tree_calls = <<>>
    /\ mermaid = <<>>

ValidatorIdle ==
    /\ terraform = <<>>
    /\ plan_run = <<>>
    /\ plan_result = <<>>
    /\ errors = <<>>
    /\ printed = <<>>

\* ---- get_target_file on one declared type ----
InitClassify ==
    /\ pc = "build"
    /\ config \in Configs
    /\ resource_type \in Types
    /\ type_to_file = <<>>
    /\ target = Unset
    /\ SplitterIdle /\ GenIdle /\ DepIdle
    /\ ValidatorIdle

BuildMap ==
    /\ pc = "build"
    /\ type_to_file' = build_type_to_file_map(config)
    /\ pc' = "classify"
    /\ UNCHANGED <<config, classifierVars, splitterVars, genVars, depVars>>
    /\ UNCHANGED valVars

Classify ==
    /\ pc = "classify"
    /\ target' = get_target_file(resource_type, type_to_file,
                                 config.default_file, config.skip_types)
    /\ pc' = "classified"
    /\ UNCHANGED <<cfgVars, resource_type, splitterVars, genVars, depVars>>
    /\ UNCHANGED valVars

NextClassify == BuildMap \/ Classify

SpecClassify == InitClassify /\ [][NextClassify]_vars

\* ---- split_terraform_file on one input file ----
InitSplit ==
    /\ pc = "parse"
    /\ \E kind \in OtherKinds : content \in SeqsUpTo(SplitLines(kind), MaxLines)
    /\ i = 1
    /\ blocks = <<>>
    /\ starts = <<>>
    /\ file_blocks = <<>>
    /\ skipped = <<>>
    /\ written = <<>>
    /\ output_dir = "absent"
    /\ dry_run = FALSE
    /\ input_exists = TRUE
    /\ stdout = <<>>
    /\ concat_order = <<>>
    /\ reparsed = <<>>
    /\ ConfigIdle /\ ClassifierIdle /\ GenIdle /\ DepIdle
    /\ ValidatorIdle

\* one iteration of the while loop of parse_tf_blocks: a resource/data header
ParseResource ==
    /\ pc = "parse"
    /\ i <= Len(content)
    /\ MatchResource(content[i])
    /\ LET h == content[i].toks[1]
           e == extract_block(content, i)
       IN  /\ blocks' = Append(blocks, Block(h.kind, h.rtype, h.name, e.block_lines))
           /\ i' = ResumeAfter(e.end_idx)
    /\ starts' = Append(starts, i)
    /\ UNCHANGED <<pc, content, file_blocks, skipped, written, output_dir>>
    /\ UNCHANGED <<mainVars, roundTripVars>>
    /\ UNCHANGED <<cfgVars, classifierVars, genVars, depVars>>
    /\ UNCHANGED valVars

\* one iteration: a header of another kind
ParseOther ==
    /\ pc = "parse"
    /\ i <= Len(content)
    /\ ~MatchResource(content[i])
    /\ MatchOther(content[i])
    /\ LET h == content[i].toks[1]
           e == extract_block(content, i)
       IN  /\ blocks' = Append(blocks, Block(h.kind, NoType, h.name, e.block_lines))
           /\ i' = ResumeAfter(e.end_idx)
    /\ starts' = Append(starts, i)
    /\ UNCHANGED <<pc, content, file_blocks, skipped, written, output_dir>>
    /\ UNCHANGED <<mainVars, roundTripVars>>
    /\ UNCHANGED <<cfgVars, classifierVars, genVars, depVars>>
    /\ UNCHANGED valVars

\* one iteration: no header on this line
ParseLine ==
    /\ pc = "parse"
    /\ i <= Len(content)
    /\ ~MatchResource(content[i])
    /\ ~MatchOther(content[i])
    /\ i' = i + 1
    /\ UNCHANGED <<pc, content, blocks, starts, file_blocks, skipped, written, output_dir>>
    /\ UNCHANGED <<mainVars, roundTripVars>>
    /\ UNCHANGED <<cfgVars, classifierVars, genVars, depVars>>
    /\ UNCHANGED valVars

\* the loop ends: parse_tf_blocks returns
ParseReturn ==
    /\ pc = "parse"
    /\ i > Len(content)
    /\ pc' = "split"
    /\ UNCHANGED <<cfgVars, classifierVars, splitterVars, genVars, depVars>>
    /\ UNCHANGED valVars

\* the rest of split_terraform_file: the reverse index, the grouping, the
\* output directory, the files
Split ==
    /\ pc = "split"
    /\ \E cfg \in SplitConfigs :
         LET t2f == build_type_to_file_map(cfg)
             g == GroupBlocks(blocks, t2f, cfg)
         IN  /\ config' = cfg
             /\ type_to_file' = t2f
             /\ file_blocks' = g.file_blocks
             /\ skipped' = g.skipped
             /\ written' = WriteFiles(g.file_blocks)
    /\ output_dir' = "present"
    /\ pc' = "done"
    /\ UNCHANGED <<content, i, blocks, starts, mainVars, roundTripVars>>
    /\ UNCHANGED <<classifierVars, genVars, depVars>>
    /\ UNCHANGED valVars

NextSplit == ParseResource \/ ParseOther \/ ParseLine \/ ParseReturn \/ Split

SpecSplit == InitSplit /\ [][NextSplit]_vars

\* ---- tf_splitter.py: main ----
\* the lines main prints; a line is the sequence of its pieces
Printed(label, value) == <<label, value>>

InitMain ==
    /\ pc = "main"
    /\ content \in SeqsUpTo(SplitLines("variable"), MaxLines)
    /\ dry_run \in BOOLEAN
    /\ input_exists \in BOOLEAN
    /\ i = 1
    /\ blocks = <<>>
    /\ starts = <<>>
    /\ file_blocks = <<>>
    /\ skipped = <<>>
    /\ written = <<>>
    /\ output_dir = "absent"
    /\ stdout = <<>>
    /\ concat_order = <<>>
    /\ reparsed = <<>>
    /\ ConfigIdle /\ ClassifierIdle /\ GenIdle /\ DepIdle
    /\ ValidatorIdle

\* main up to the call of split_terraform_file: the input file is missing
MainNoInput ==
    /\ pc = "main"
    /\ ~input_exists
    /\ stdout' = <<Printed("Error: Input file not found: ", "input_file")>>
    /\ pc' = "exit_1"
    /\ UNCHANGED <<content, i, blocks, starts, file_blocks, skipped, written, output_dir>>
    /\ UNCHANGED <<dry_run, input_exists, roundTripVars>>
    /\ UNCHANGED <<cfgVars, classifierVars, genVars, depVars>>
    /\ UNCHANGED valVars

\* main up to the call of split_terraform_file: the announcements, then the
\* call, whatever args.dry_run is
MainStart ==
    /\ pc = "main"
    /\ input_exists
    /\ stdout' = <<Printed("Splitting: ", "input_file"),
                   Printed("Output to: ", "output_dir"), <<>>>>
                 \o (IF dry_run THEN <<<<"DRY RUN - no files will be written">>, <<>>>>
                     ELSE <<>>)
    /\ pc' = "parse"
    /\ UNCHANGED <<content, i, blocks, starts, file_blocks, skipped, written, output_dir>>
    /\ UNCHANGED <<dry_run, input_exists, roundTripVars>>
    /\ UNCHANGED <<cfgVars, classifierVars, genVars, depVars>>
    /\ UNCHANGED valVars

\* main after split_terraform_file returned: the totals and the skipped list
MainSummary ==
    /\ pc = "done"
    /\ stdout' = stdout
                 \o <<<<>>, Printed("Total files created: ", Len(written)),
                      Printed("Total blocks processed: ",
                              Len(Concat([n \in 1..Len(written) |-> written[n].blocks_list])))>>
                 \o (IF skipped # <<>>
                     THEN <<Printed("Skipped resources: ", Len(skipped))>>
                          \o [n \in 1..Len(skipped) |-> Printed("  - ", skipped[n])]
                     ELSE <<>>)
    /\ pc' = "exit_0"
    /\ UNCHANGED <<content, i, blocks, starts, file_blocks, skipped, written, output_dir>>
    /\ UNCHANGED <<dry_run, input_exists, roundTripVars>>
    /\ UNCHANGED <<cfgVars, classifierVars, genVars, depVars>>
    /\ UNCHANGED valVars

NextMain == MainNoInput \/ MainStart \/ NextSplit \/ MainSummary

SpecMain == InitMain /\ [][NextMain]_vars

\* ---- the written files concatenated and parsed again ----
Reparse ==
    /\ pc = "done"
    /\ \E order \in Permutations(1..Len(written)) :
          /\ concat_order' = order
          /\ reparsed' = parse_tf_blocks(
                 ConcatTexts([n \in 1..Len(written) |-> written[order[n]].text]))
    /\ pc' = "reparsed"
    /\ UNCHANGED <<content, i, blocks, starts, file_blocks, skipped, written, output_dir>>
    /\ UNCHANGED <<mainVars, cfgVars, classifierVars, genVars, depVars>>
    /\ UNCHANGED valVars

NextRoundTrip == NextSplit \/ Reparse

SpecRoundTrip == InitSplit /\ [][NextRoundTrip]_vars

\* ---- TerraformParser.parse on one main.tf ----
InitGen ==
    /\ pc = "gen_parse"
    /\ main_tf \in GenContents
    /\ match_idx = 1
    /\ parsed = <<>>
    /\ attr_calls = <<>>
    /\ resource_configs = <<>>
    /\ locals_tf = <<>>
    /\ outputs_tf = <<>>
    /\ ConfigIdle /\ ClassifierIdle /\ SplitterIdle /\ DepIdle
    /\ ValidatorIdle

\* one iteration of the loop over the matches of RESOURCE_PATTERN
ParseMatch ==
    /\ pc = "gen_parse"
    /\ match_idx <= Len(ResourceMatches(Stream(main_tf)))
    /\ LET stream == Stream(main_tf)
           at == ResourceMatches(stream)[match_idx]
           rtype == stream[at].rtype
           block_content == extract_block_content(stream, at + 1)
           azure_name == extract_top_level_attribute(block_content, "name")
           vnet_name == IF rtype = T_SUBNET
                        THEN extract_top_level_attribute(block_content, "virtual_network_name")
                        ELSE None
           r == ParsedResource(rtype, stream[at].name, azure_name, vnet_name)
       IN  /\ parsed' = DictAppend(parsed, rtype, r)
           /\ attr_calls' =
                 attr_calls \o <<AttrCall(block_content, "name", azure_name)>>
                 \o (IF rtype = T_SUBNET
                     THEN <<AttrCall(block_content, "virtual_network_name", vnet_name)>>
                     ELSE <<>>)
    /\ match_idx' = match_idx + 1
    /\ UNCHANGED <<pc, main_tf, resource_configs, locals_tf, outputs_tf>>
    /\ UNCHANGED <<cfgVars, classifierVars, splitterVars, depVars>>
    /\ UNCHANGED valVars

\* the loop ends: parse returns the resources
ParseMatchesDone ==
    /\ pc = "gen_parse"
    /\ match_idx > Len(ResourceMatches(Stream(main_tf)))
    /\ pc' = "gen_parsed"
    /\ UNCHANGED <<cfgVars, classifierVars, splitterVars, genVars, depVars>>
    /\ UNCHANGED valVars

NextGen == ParseMatch \/ ParseMatchesDone

SpecGen == InitGen /\ [][NextGen]_vars

\* ---- generate_outputs: parse, then generate_locals under a schema ----
InitLocals ==
    /\ pc = "gen_parse"
    /\ main_tf \in SeqsUpTo(LocalsLines, MaxLocalsLines)
    /\ match_idx = 1
    /\ parsed = <<>>
    /\ attr_calls = <<>>
    /\ resource_configs = <<>>
    /\ locals_tf = <<>>
    /\ outputs_tf = <<>>
    /\ ConfigIdle /\ ClassifierIdle /\ SplitterIdle /\ DepIdle
    /\ ValidatorIdle

\* OutputGenerator(resources, configs).generate_locals()
GenerateLocals ==
    /\ pc = "gen_parsed"
    /\ \E configs \in Schemas :
          /\ resource_configs' = configs
          /\ locals_tf' = generate_locals(parsed, config_map(configs))
    /\ pc' = "locals_done"
    /\ UNCHANGED <<main_tf, match_idx, parsed, attr_calls, outputs_tf>>
    /\ UNCHANGED <<cfgVars, classifierVars, splitterVars, depVars>>
    /\ UNCHANGED valVars

NextLocals == ParseMatch \/ ParseMatchesDone \/ GenerateLocals

SpecLocals == InitLocals /\ [][NextLocals]_vars

\* ---- generate_outputs: main writes locals.tf and outputs.tf ----
OutputsLines == {G_SUBNET, G_SUBNET2, G_VNET1, G_NAME_A, G_CLOSE}

InitOutputs ==
    /\ pc = "gen_parse"
    /\ main_tf \in SeqsUpTo(OutputsLines, MaxLocalsLines)
    /\ match_idx = 1
    /\ parsed = <<>>
    /\ attr_calls = <<>>
    /\ resource_configs = <<>>
    /\ locals_tf = <<>>
    /\ outputs_tf = <<>>
    /\ ConfigIdle /\ ClassifierIdle /\ SplitterIdle /\ DepIdle
    /\ ValidatorIdle

\* generator.generate_outputs(), the generator being the one of generate_locals
GenerateOutputs ==
    /\ pc = "locals_done"
    /\ outputs_tf' = generate_outputs(parsed, config_map(resource_configs))
    /\ pc' = "outputs_done"
    /\ UNCHANGED <<main_tf, match_idx, parsed, attr_calls, resource_configs, locals_tf>>
    /\ UNCHANGED <<cfgVars, classifierVars, splitterVars, depVars>>
    /\ UNCHANGED valVars

NextOutputs == ParseMatch \/ ParseMatchesDone \/ GenerateLocals \/ GenerateOutputs

SpecOutputs == InitOutputs /\ [][NextOutputs]_vars

\* ---- TerraformDependencyParser.parse on one directory ----
InitDeps ==
    /\ pc = "dep_parse"
    /\ \E bs \in SeqsUpTo(DepBlocks, MaxDepBlocks) :
          \E cut \in Cuts(MaxFiles - 1, Len(bs)) : tf_files = CutFiles(bs, cut)
    /\ file_idx = 1
    /\ resources = <<>>
    /\ dependencies = <<>>
    /\ dot = <<>>
    /\ tree = <<>>
    /\ tree_roots = <<>>
    /\ tree_calls = <<>>
    /\ mermaid = <<>>
    /\ ConfigIdle /\ ClassifierIdle /\ SplitterIdle /\ GenIdle
    /\ ValidatorIdle

\* one iteration of the loop over tf_files: _parse_file
ParseFile ==
    /\ pc = "dep_parse"
    /\ file_idx <= Len(tf_files)
    /\ resources' = parse_file(resources, tf_files[file_idx])
    /\ file_idx' = file_idx + 1
    /\ UNCHANGED <<pc, tf_files, dependencies, dot, graphVars>>
    /\ UNCHANGED <<cfgVars, classifierVars, splitterVars, genVars>>
    /\ UNCHANGED valVars

\* after the loop: _extract_dependencies
ExtractDependencies ==
    /\ pc = "dep_parse"
    /\ file_idx > Len(tf_files)
    /\ dependencies' = extract_dependencies(resources)
    /\ pc' = "dep_parsed"
    /\ UNCHANGED <<tf_files, file_idx, resources, dot, graphVars>>
    /\ UNCHANGED <<cfgVars, classifierVars, splitterVars, genVars>>
    /\ UNCHANGED valVars

\* DotGraphGenerator(parser).generate()
GenerateDot ==
    /\ pc = "dep_parsed"
    /\ \E orders \in DepOrders(dependencies) :
          dot' = DotGenerate(resources, dependencies, orders)
    /\ pc' = "dot_done"
    /\ UNCHANGED <<tf_files, file_idx, resources, dependencies, graphVars>>
    /\ UNCHANGED <<cfgVars, classifierVars, splitterVars, genVars>>
    /\ UNCHANGED valVars

NextDeps == ParseFile \/ ExtractDependencies \/ GenerateDot

SpecDeps == InitDeps /\ [][NextDeps]_vars

\* ---- dependency_graph on one file of resource blocks, then a rendering ----
InitGraph ==
    /\ pc = "dep_parse"
    /\ \E n \in 0..MaxTreeBlocks :
          \E bodies \in [1..n -> TreeBodies] :
              tf_files = <<Concat([k \in 1..n |-> TreeBlock(TreeNames[k], bodies[k])])>>
    /\ file_idx = 1
    /\ resources = <<>>
    /\ dependencies = <<>>
    /\ dot = <<>>
    /\ tree = <<>>
    /\ tree_roots = <<>>
    /\ tree_calls = <<>>
    /\ mermaid = <<>>
    /\ ConfigIdle /\ ClassifierIdle /\ SplitterIdle /\ GenIdle
    /\ ValidatorIdle

\* TextTreeGenerator(parser).generate()
GenerateTree ==
    /\ pc = "dep_parsed"
    /\ \E orders \in DepOrders(dependencies) :
          LET st == TreeGenerate(resources, dependencies, orders)
          IN  /\ tree' = st.lines
              /\ tree_calls' = st.calls
    /\ tree_roots' = Sorted(TreeRoots(resources, dependencies))
    /\ pc' = "tree_done"
    /\ UNCHANGED <<tf_files, file_idx, resources, dependencies, dot, mermaid>>
    /\ UNCHANGED <<cfgVars, classifierVars, splitterVars, genVars>>
    /\ UNCHANGED valVars

\* MermaidGraphGenerator(parser).generate()
GenerateMermaid ==
    /\ pc = "dep_parsed"
    /\ \E orders \in DepOrders(dependencies) :
          mermaid' = MermaidGenerate(resources, dependencies, orders)
    /\ pc' = "mermaid_done"
    /\ UNCHANGED <<tf_files, file_idx, resources, dependencies, dot>>
    /\ UNCHANGED <<tree, tree_roots, tree_calls>>
    /\ UNCHANGED <<cfgVars, classifierVars, splitterVars, genVars>>
    /\ UNCHANGED valVars

NextGraph == ParseFile \/ ExtractDependencies \/ GenerateTree \/ GenerateMermaid

SpecGraph == InitGraph /\ [][NextGraph]_vars

(***************************************************************************)
(* Claims about the classifier (SpecClassify)                              *)
(***************************************************************************)
RuleIndexes(m, rtype) == {n \in 1..Len(m) : m[n].rtype = rtype}

\* the bucket the configuration records for a mapped type: its last entry's
RecordedBucket(m, rtype) == m[Max(RuleIndexes(m, rtype))].filename

Skipped(cfg, rtype) == \E n \in 1..Len(cfg.skip_types) : cfg.skip_types[n] = rtype

\* p is a prefix of s (as text), stated on the positions of the two names
IsPrefixOf(p, s) == Len(p) <= Len(s) /\ \A n \in 1..Len(p) : p[n] = s[n]

\* C9: a declared type that is itself a mapped type, and is not in skip_types,
\* gets the bucket recorded for that exact type, whatever prefixes of it are
\* mapped earlier in configuration order.
C9_ExactBeforePrefix ==
    (pc = "classified"
        /\ ~Skipped(config, resource_type)
        /\ RuleIndexes(config.mappings, resource_type) # {})
    => target = RecordedBucket(config.mappings, resource_type)

\* C9 witness: the exact type is mapped after a proper prefix of it that belongs
\* to another bucket, and the exact type's bucket was returned.
C9_Witness ==
    /\ pc = "classified"
    /\ ~Skipped(config, resource_type)
    /\ Len(config.mappings) = 2
    /\ config.mappings[2].rtype = resource_type
    /\ config.mappings[1].rtype # resource_type
    /\ IsPrefixOf(config.mappings[1].rtype, resource_type)
    /\ config.mappings[1].filename # config.mappings[2].filename
    /\ target = config.mappings[2].filename

\* C10: a declared type that is not skipped, is no key of the type index and has
\* no mapped type as a prefix goes to the default bucket.
C10_DefaultBucket ==
    (pc = "classified"
        /\ ~Skipped(config, resource_type)
        /\ \A n \in 1..Len(config.mappings) :
              ~IsPrefixOf(config.mappings[n].rtype, resource_type))
    => target = config.default_file

\* C10 witness: networking.tf: [azurerm_virtual_network] only, and azurerm_subnet
\* was routed to other.tf.
C10_Witness ==
    /\ pc = "classified"
    /\ config.mappings = <<Rule("networking.tf", T_VNET)>>
    /\ config.skip_types = <<>>
    /\ config.default_file = "other.tf"
    /\ resource_type = T_SUBNET
    /\ target = "other.tf"

(***************************************************************************)
(* Claims about block extraction and splitting (SpecSplit)                 *)
(***************************************************************************)
Parsed == pc \in {"split", "done"}

\* a line that begins with a block header
IsHeaderLine(line) == ~line.indent /\ line.toks # <<>> /\ line.toks[1].k = "hdr"

\* The brace depth at which line n begins: every '{' before it opens a level,
\* every '}' closes one if one is open.
RECURSIVE DepthBefore(_, _)
DepthBefore(lines, n) ==
    IF n = 1 THEN 0
    ELSE LET d == DepthBefore(lines, n - 1)
                  + CountOpen(lines[n - 1]) - CountClose(lines[n - 1])
         IN  IF d < 0 THEN 0 ELSE d

TopLevelHeaders(lines) ==
    {n \in 1..Len(lines) : IsHeaderLine(lines[n]) /\ DepthBefore(lines, n) = 0}

BlocksAt(n) == {k \in 1..Len(starts) : starts[k] = n}

\* C1: every top-level header line has exactly one Block, the Blocks are in
\* input order, and each carries its header's kind, type and name.
C1_EveryTopLevelHeaderOnce ==
    Parsed =>
        /\ \A n \in TopLevelHeaders(content) : Cardinality(BlocksAt(n)) = 1
        /\ \A k, l \in 1..Len(starts) : k < l => starts[k] < starts[l]
        /\ Len(blocks) = Len(starts)
        /\ \A k \in 1..Len(blocks) :
              LET h == content[starts[k]].toks[1]
              IN  /\ blocks[k].block_type = h.kind
                  /\ blocks[k].resource_type = h.rtype
                  /\ blocks[k].resource_name = h.name

\* C1 witness: two top-level headers, the second right after a one-line block,
\* both extracted.
C1_Witness ==
    /\ Parsed
    /\ Len(content) >= 3
    /\ content[1] = L_DATA1
    /\ content[2] = L_RES
    /\ TopLevelHeaders(content) = {1, 2}
    /\ starts = <<1, 2>>

\* the brace count of the block that starts at line s never returns to 0
Unclosed(lines, s) == \A e \in s..Len(lines) : NetBraces(lines, s, e) # 0

MarkedUnclosed(b) == "unclosed" \in DOMAIN b

ResourceBlockIdx == {k \in 1..Len(blocks) : blocks[k].block_type \in ResourceKinds}

\* how often text t stands in the list of bucket n
CountIn(list, t) == Cardinality({j \in 1..Len(list) : list[j] = t})

RECURSIVE SumOver(_, _)
SumOver(S, f) ==
    IF S = {} THEN 0
    ELSE LET x == CHOOSE y \in S : TRUE IN f[x] + SumOver(S \ {x}, f)

\* the buckets that hold text t, and how often all buckets hold it
BucketsWith(t) == {n \in 1..Len(file_blocks) : CountIn(file_blocks[n][2], t) > 0}
TimesBucketed(t) ==
    SumOver(1..Len(file_blocks), [n \in 1..Len(file_blocks) |-> CountIn(file_blocks[n][2], t)])

IsResourceText(t) == t # <<>> /\ t[1].toks[1].kind \in ResourceKinds
ResourceTextsBucketed ==
    SumOver(1..Len(file_blocks),
            [n \in 1..Len(file_blocks) |->
                Cardinality({j \in 1..Len(file_blocks[n][2]) :
                                IsResourceText(file_blocks[n][2][j])})])

\* C2: every resource/data Block is in exactly one bucket or on the skipped
\* list, never both and never neither, and the counts add up.
C2_EveryResourceBlockPlacedOnce ==
    pc = "done" =>
        /\ ResourceTextsBucketed + Len(skipped) = Cardinality(ResourceBlockIdx)
        /\ \A k \in ResourceBlockIdx :
              LET b == blocks[k]
                  same == {l \in ResourceBlockIdx : blocks[l].block_text = b.block_text}
                  sameAddr == {l \in ResourceBlockIdx :
                                  /\ blocks[l].resource_type = b.resource_type
                                  /\ blocks[l].resource_name = b.resource_name}
                  onSkipped == CountIn(skipped, <<b.resource_type, b.resource_name>>)
              IN  \/ /\ TimesBucketed(b.block_text) = Cardinality(same)
                     /\ Cardinality(BucketsWith(b.block_text)) = 1
                     /\ onSkipped = 0
                  \/ /\ TimesBucketed(b.block_text) = 0
                     /\ onSkipped = Cardinality(sameAddr)

\* C2 witness: one block was skipped, another went to a bucket.
C2_Witness ==
    /\ pc = "done"
    /\ Cardinality(ResourceBlockIdx) = 2
    /\ Len(skipped) = 1
    /\ ResourceTextsBucketed = 1

\* the resource/data Blocks whose declared type is listed in skip_types
SkippedBlockIdx == {k \in ResourceBlockIdx : Skipped(config, blocks[k].resource_type)}

\* every text written to some output file
WrittenTexts == UNION {Range(written[n].blocks_list) : n \in 1..Len(written)}

\* C11: a resource/data Block whose type is in skip_types gets no bucket, is on
\* the skipped list and is written to no output file, also when its type is a
\* key of the mapping table or has a mapped prefix.
C11_SkipTypesWin ==
    pc = "done" =>
        \A k \in SkippedBlockIdx :
            LET b == blocks[k]
            IN  /\ get_target_file(b.resource_type, type_to_file,
                                   config.default_file, config.skip_types) = None
                /\ CountIn(skipped, <<b.resource_type, b.resource_name>>) > 0
                /\ TimesBucketed(b.block_text) = 0
                /\ b.block_text \notin WrittenTexts

\* C11 witness: azurerm_mssql_server is skipped while its prefix azurerm_mssql
\* is mapped to databases-sql.tf; the block is on the skipped list and
\* databases-sql.tf was not written.
C11_Witness ==
    /\ pc = "done"
    /\ config.skip_types = <<T_MSSQL_SERVER>>
    /\ config.mappings = <<Rule("databases-sql.tf", T_MSSQL)>>
    /\ SkippedBlockIdx # {}
    /\ skipped[1] = <<T_MSSQL_SERVER, "db">>
    /\ \A n \in 1..Len(written) : written[n].filename # "databases-sql.tf"

\* the bucket names a configuration can give
BucketNames(cfg) ==
    {cfg.mappings[n].filename : n \in 1..Len(cfg.mappings)} \cup {cfg.default_file}

WrittenNames == {written[n].filename : n \in 1..Len(written)}

\* the text of block b stands in the written file named f
WrittenTo(b, f) ==
    \E n \in 1..Len(written) :
        written[n].filename = f /\ b.block_text \in Range(written[n].blocks_list)

\* every resource/data Block was classified as skipped or into a bucket of the
\* configuration, and every bucket that received a block was written
ClassifiedAndWritten ==
    /\ \A k \in ResourceBlockIdx :
          LET b == blocks[k]
              t == get_target_file(b.resource_type, type_to_file,
                                   config.default_file, config.skip_types)
          IN  \/ t = None /\ CountIn(skipped, <<b.resource_type, b.resource_name>>) > 0
              \/ t \in BucketNames(config) /\ WrittenTo(b, t)
    /\ WrittenNames = DictKeys(file_blocks)
    /\ blocks # <<>> /\ Len(skipped) < Len(blocks) => written # <<>>

\* C12: classification never fails.  Whatever blocks were extracted and
\* whatever the configuration maps, the rest of split_terraform_file can run
\* (nothing stops it), and when it has run every resource/data Block, mapped
\* or not, was either skipped or written to a bucket of the configuration.
C12_ClassificationNeverFails ==
    /\ pc = "split" => ENABLED Split
    /\ pc = "done" => ClassifiedAndWritten

\* C12 witness: azurerm_mssql_server is neither mapped nor skipped nor covered
\* by a mapped prefix, and its block was written to the default bucket.
C12_Witness ==
    /\ pc = "done"
    /\ config.mappings = <<Rule("databases-sql.tf", T_SUBNET)>>
    /\ config.skip_types = <<>>
    /\ config.default_file = "other.tf"
    /\ \E k \in ResourceBlockIdx :
          /\ blocks[k].resource_type = T_MSSQL_SERVER
          /\ WrittenTo(blocks[k], "other.tf")

SpecialBlockIdx == {k \in 1..Len(blocks) : blocks[k].block_type \in OtherKinds}

\* the fixed bucket of each special kind
DedicatedBucket ==
    [terraform |-> "versions.tf", provider |-> "providers.tf", variable |-> "variables.tf",
     output |-> "outputs.tf", locals |-> "locals.tf", module |-> "modules.tf"]

\* C13: every Block of a special kind is written to the fixed bucket of its
\* kind and to no other, and is not on the skipped list, whatever the mapping
\* table, default_file and skip_types are.
C13_SpecialKindsFixedBuckets ==
    pc = "done" =>
        \A k \in SpecialBlockIdx :
            LET b == blocks[k]
                same == {l \in SpecialBlockIdx : blocks[l].block_text = b.block_text}
            IN  /\ WrittenTo(b, DedicatedBucket[b.block_type])
                /\ \A n \in BucketsWith(b.block_text) :
                      file_blocks[n][1] = DedicatedBucket[b.block_type]
                /\ TimesBucketed(b.block_text) = Cardinality(same)
                /\ Len(skipped) = Len(SelectSeq(skipped, LAMBDA x : x[1] # NoType))

\* C13 witness: the mapping and default_file both name variables.tf, a type is
\* skipped, and a locals block was written to locals.tf.
C13_Witness ==
    /\ pc = "done"
    /\ config.mappings = <<Rule("variables.tf", T_MSSQL)>>
    /\ config.default_file = "variables.tf"
    /\ config.skip_types = <<T_SUBNET>>
    /\ \E k \in SpecialBlockIdx :
          blocks[k].block_type = "locals" /\ WrittenTo(blocks[k], "locals.tf")
    /\ "variables.tf" \in WrittenNames

\* the bucket of block k: by its type for resource/data, by its kind otherwise
BucketOf(k) ==
    IF blocks[k].block_type \in ResourceKinds
    THEN get_target_file(blocks[k].resource_type, type_to_file,
                         config.default_file, config.skip_types)
    ELSE DedicatedBucket[blocks[k].block_type]

\* the blocks with the indexes K that went to bucket f, in input order
TextsOf(K, f) ==
    LET idx == SelectSeq([k \in 1..Len(blocks) |-> k], LAMBDA k : k \in K /\ BucketOf(k) = f)
    IN  [j \in 1..Len(idx) |-> blocks[idx[j]].block_text]

\* where block j of a file begins when a single empty line stands between
\* two blocks: after the blocks before it and one line for each
OffsetOf(blocks_list, j) ==
    SumOver(1..(j - 1), [m \in 1..(j - 1) |-> Len(blocks_list[m]) + 1])

\* the file's text is its blocks in the order of the list, one empty line
\* between two of them, and a newline at the end
JoinedByBlankLine(w) ==
    /\ Len(w.text) = OffsetOf(w.blocks_list, Len(w.blocks_list) + 1)
    /\ \A j \in 1..Len(w.blocks_list) :
          LET o == OffsetOf(w.blocks_list, j)
              len == Len(w.blocks_list[j])
          IN  /\ SubSeq(w.text, o + 1, o + len) = w.blocks_list[j]
              /\ w.text[o + len + 1] = BlankLine

\* C14 as stated: every written file holds the blocks of its bucket in input
\* order, also a file that holds resource/data blocks and special blocks.
C14_StableInputOrder ==
    pc = "done" =>
        \A n \in 1..Len(written) :
            /\ written[n].blocks_list = TextsOf(1..Len(blocks), written[n].filename)
            /\ JoinedByBlankLine(written[n])

\* C14 (amended): every written file holds the resource/data blocks of its
\* bucket in input order, followed by the special blocks of its bucket in input
\* order, an empty line between two blocks.
C14_ResourcesThenSpecials ==
    pc = "done" =>
        \A n \in 1..Len(written) :
            /\ written[n].blocks_list =
                  TextsOf(ResourceBlockIdx, written[n].filename)
                  \o TextsOf(SpecialBlockIdx, written[n].filename)
            /\ JoinedByBlankLine(written[n])

\* C14 witness: default_file is variables.tf, the input has a variable block
\* before a resource block, and variables.tf holds the resource block first.
C14_Witness ==
    /\ pc = "done"
    /\ config.default_file = "variables.tf"
    /\ Len(blocks) = 2
    /\ blocks[1].block_type = "variable"
    /\ blocks[2].block_type = "data"
    /\ \E n \in 1..Len(written) :
          /\ written[n].filename = "variables.tf"
          /\ written[n].blocks_list = <<blocks[2].block_text, blocks[1].block_text>>
          /\ written[n].text =
                blocks[2].block_text \o <<BlankLine>> \o blocks[1].block_text \o <<BlankLine>>

(***************************************************************************)
(* Claims about the round trip (SpecRoundTrip)                             *)
(***************************************************************************)
\* the addresses (type, name) of the resource/data blocks of a list of blocks
Addresses(bs) ==
    {<<bs[k].resource_type, bs[k].resource_name>> :
        k \in {l \in 1..Len(bs) : bs[l].block_type \in ResourceKinds}}

SkippedAddresses == {a \in Addresses(blocks) : Skipped(config, a[1])}

\* no block of the input runs to the end of input for want of a closing brace
AllClosed == \A k \in 1..Len(starts) : ~Unclosed(content, starts[k])

\* C15 as stated: the written files, concatenated in any order and parsed
\* again, give the address set of the input.
C15_RoundTrip ==
    pc = "reparsed" => Addresses(reparsed) = Addresses(blocks)

\* C15 (amended): the written files, concatenated in any order and parsed
\* again, give no address that the input has not and none of a skipped block;
\* when every block of the input is closed they give exactly the addresses of
\* the blocks that were not skipped.
C15_RoundTripOfWrittenBlocks ==
    pc = "reparsed" =>
        /\ Addresses(reparsed) \subseteq Addresses(blocks) \ SkippedAddresses
        /\ AllClosed => Addresses(reparsed) = Addresses(blocks) \ SkippedAddresses

\* C15 witness: two closed blocks went to two files, nothing was skipped, the
\* files were concatenated in the reverse of the writing order, and both
\* addresses came back.
C15_Witness ==
    /\ pc = "reparsed"
    /\ AllClosed
    /\ skipped = <<>>
    /\ Len(written) = 2
    /\ concat_order = <<2, 1>>
    /\ Cardinality(Addresses(blocks)) = 2
    /\ Addresses(reparsed) = Addresses(blocks)

(***************************************************************************)
(* Claims about the attribute extractor (SpecGen)                          *)
(***************************************************************************)
\* position p of a body is the first thing on its line
FirstOnLine(body, p) == p = 1 \/ body[p - 1].k = "nl"

\* the lines of the body that match <attr_name> = "<value>", by the position
\* of the attribute
MatchingPositions(body, attr_name) ==
    {p \in 1..Len(body) :
        body[p].k = "attr" /\ body[p].name = attr_name /\ FirstOnLine(body, p)}

\* how many sub-blocks of the body are open at position p
TokDepth(body, p) == Opens(SubSeq(body, 1, p - 1)) - Closes(SubSeq(body, 1, p - 1))

DepthZeroPositions(body, attr_name) ==
    {p \in MatchingPositions(body, attr_name) : TokDepth(body, p) = 0}

\* C4: when every line of a block body that declares the attribute lies inside
\* a nested sub-block, the attribute extractor returns None.
C4_NestedAttributeNotReturned ==
    \A n \in 1..Len(attr_calls) :
        LET c == attr_calls[n]
        IN  DepthZeroPositions(c.block_content, c.attr_name) = {} => c.result = None

\* C4 witness: name is declared on a line of its own inside a nested sub-block
\* of a closed resource block, nowhere else, and the extractor returned None.
C4_Witness ==
    \E n \in 1..Len(attr_calls) :
        LET c == attr_calls[n]
        IN  /\ c.attr_name = "name"
            /\ MatchingPositions(c.block_content, "name") # {}
            /\ DepthZeroPositions(c.block_content, "name") = {}
            /\ c.block_content = <<NL, OpenTok, NL, Attr("name", "sub-a"), NL, CloseTok, NL>>
            /\ c.result = None

\* C5 as stated: of several depth-zero declarations of an attribute, the last
\* one's value is returned.
C5_LastDepthZeroWins ==
    \A n \in 1..Len(attr_calls) :
        LET c == attr_calls[n]
            z == DepthZeroPositions(c.block_content, c.attr_name)
        IN  z # {} => c.result = c.block_content[Max(z)].value

\* C5 (amended): of several depth-zero declarations of an attribute, the first
\* one's value in top-to-bottom scan order is returned.
C5_FirstDepthZeroWins ==
    \A n \in 1..Len(attr_calls) :
        LET c == attr_calls[n]
            z == DepthZeroPositions(c.block_content, c.attr_name)
        IN  z # {} => c.result = c.block_content[Min(z)].value

\* C5 witness: name is declared twice at depth zero with different values and
\* the first value was returned.
C5_Witness ==
    \E n \in 1..Len(attr_calls) :
        LET c == attr_calls[n]
            z == DepthZeroPositions(c.block_content, c.attr_name)
        IN  /\ Cardinality(z) >= 2
            /\ c.block_content[Min(z)].value # c.block_content[Max(z)].value
            /\ c.result = c.block_content[Min(z)].value

(***************************************************************************)
(* Claims about the reference resolver (SpecDeps)                          *)
(***************************************************************************)
\* the Reference Edges: (source, target)
Edges ==
    UNION {{<<dependencies[n][1], t>> : t \in dependencies[n][2]} :
              n \in 1..Len(dependencies)}

\* the addresses of the resource blocks a file declares
DeclaredIn(lines) ==
    {ResourceId(lines[n].toks[1].rtype, lines[n].toks[1].name) :
        n \in {m \in 1..Len(lines) :
                  lines[m].toks[1].k = "hdr" /\ lines[m].toks[1].kind = "resource"}}

DeclaredInDir == UNION {DeclaredIn(tf_files[f]) : f \in 1..Len(tf_files)}

\* the references written in the bodies of the directory's blocks
DirLines == Concat(tf_files)
RefLines == {n \in 1..Len(DirLines) : DirLines[n].toks[1].k = "ref"}
\* the resource block of a reference line: its header is the line before it;
\* a data block is no source
SourceOf(n) ==
    IF DirLines[n - 1].toks[1].kind = "resource"
    THEN ResourceId(DirLines[n - 1].toks[1].rtype, DirLines[n - 1].toks[1].name)
    ELSE ResourceId(NoType, None)
PointsTo(n) == ResourceId(TypeNamed(DirLines[n].toks[1].segs[1]), DirLines[n].toks[1].segs[2])

\* C6: no Reference Edge has a target in a reserved namespace, even when a
\* resource block of that type and name exists.
C6_NoReservedTarget ==
    pc = "dep_parsed" =>
        \A e \in Edges : \A w \in ReservedWords : e[2][1] # TypeNamed(w)

\* C6 witness: resource "var" "foo" exists, the body of another block mentions
\* var.foo, and no edge was made for it.
C6_Witness ==
    /\ pc = "dep_parsed"
    /\ ResourceId(T_VAR, "foo") \in DictKeys(resources)
    /\ \E n \in 1..Len(resources) :
          /\ resources[n][1] # ResourceId(T_VAR, "foo")
          /\ resources[n][2] = <<NL, Ref(<<"var", "foo">>), NL>>
    /\ \A e \in Edges : e[2] # ResourceId(T_VAR, "foo")

\* C7: the target of every Reference Edge is the address of a block of the
\* input and differs from the source; nsg.id, which is no block, is no target.
C7_TargetKnownAndNotSelf ==
    pc = "dep_parsed" =>
        \A e \in Edges :
            /\ e[2] \in DeclaredInDir
            /\ e[2] # e[1]
            /\ e[2] # ResourceId(TypeNamed("nsg"), "id")

\* C7 witness: a block that mentions itself and a block that mentions nsg.id
\* were resolved, and neither has an edge.
C7_Witness ==
    /\ pc = "dep_parsed"
    /\ \E n, m \in 1..Len(resources) :
          /\ resources[n][1] = ResourceId(T_SUBNET, "sub1")
          /\ resources[n][2] = <<NL, Ref(<<"azurerm_subnet", "sub1", "id">>), NL>>
          /\ resources[m][2] = <<NL, Ref(<<"nsg", "id">>), NL>>
    /\ Edges = {}

\* C8 as stated: every edge connects two blocks of one file.
C8_EdgesWithinOneFile ==
    pc = "dep_parsed" =>
        \A e \in Edges :
            \E f \in 1..Len(tf_files) :
                e[1] \in DeclaredIn(tf_files[f]) /\ e[2] \in DeclaredIn(tf_files[f])

\* the last body the directory gives to an address (a later block of the same
\* address replaces an earlier one)
LastRefLine(a) == Max({n \in RefLines : SourceOf(n) = a})

\* C8 (amended): resolution is scoped to the directory: the edges are exactly
\* the references from a block of the directory to another block of the
\* directory, whichever files the two are in.
C8_EdgesWithinOneDirectory ==
    pc = "dep_parsed" =>
        Edges = {<<a, b>> \in DeclaredInDir \X DeclaredInDir :
                    /\ a # b
                    /\ PointsTo(LastRefLine(a)) = b
                    /\ DirLines[LastRefLine(a)].toks[1].segs[1] \notin ReservedWords}

\* C8 witness: the directory has two files, a block of the first refers to a
\* block declared only in the second, and the edge exists.
C8_Witness ==
    /\ pc = "dep_parsed"
    /\ Len(tf_files) = 2
    /\ ResourceId(T_VAR, "foo") \in DeclaredIn(tf_files[1])
    /\ ResourceId(T_SUBNET, "sub1") \notin DeclaredIn(tf_files[1])
    /\ DeclaredIn(tf_files[2]) = {ResourceId(T_SUBNET, "sub1")}
    /\ <<ResourceId(T_VAR, "foo"), ResourceId(T_SUBNET, "sub1")>> \in Edges

(***************************************************************************)
(* Claims about the graph rendering (SpecDeps)                             *)
(***************************************************************************)
\* the addresses of the resource and data blocks of the directory
BlockAddressesInDir ==
    {ResourceId(DirLines[n].toks[1].rtype, DirLines[n].toks[1].name) :
        n \in {m \in 1..Len(DirLines) : DirLines[m].toks[1].k = "hdr"}}

NodeLinesOf(a) == {n \in 1..Len(dot) : dot[n].k = "node" /\ dot[n].id = a}
EdgeLinesOf(e) ==
    {n \in 1..Len(dot) : dot[n].k = "edge" /\ dot[n].source = e[1] /\ dot[n].dep = e[2]}
RenderedNodes == {dot[n].id : n \in {m \in 1..Len(dot) : dot[m].k = "node"}}
RenderedEdges ==
    {<<dot[n].source, dot[n].dep>> : n \in {m \in 1..Len(dot) : dot[m].k = "edge"}}

GenText == Stream(main_tf)
GenHeaders ==
    SelectSeq([n \in 1..Len(GenText) |-> n],
              LAMBDA n : GenText[n].k = "hdr" /\ GenText[n].kind = "resource")

\* the closing braces after the header at position at that balance its brace
BalancingCloses(at) ==
    {e \in (at + 1)..Len(GenText) :
        /\ GenText[e].k = "close"
        /\ Opens(SubSeq(GenText, at, e)) = Closes(SubSeq(GenText, at, e))}

IsClosed(at) == BalancingCloses(at) # {}

\* the text between the braces of a closed block; the text after the header
BodyOf(at) == SubSeq(GenText, at + 1, Min(BalancingCloses(at)) - 1)
RestOf(at) == SubSeq(GenText, at + 1, Len(GenText))

\* the value of the first depth-zero declaration of an attribute in a body
DepthZeroValue(body, attr_name) == body[Min(DepthZeroPositions(body, attr_name))].value

\* the m-th resource header is the RankInType(m)-th of its type
TypeAt(m) == GenText[GenHeaders[m]].rtype
NameAt(m) == GenText[GenHeaders[m]].name
RankInType(m) == Cardinality({j \in 1..m : TypeAt(j) = TypeAt(m)})

\* the ParsedResource of the m-th header, once the parser has passed it
ParsedAt(m) == DictGet(parsed, TypeAt(m))[RankInType(m)]

\* the call that extracted name for the m-th header
NameCallAt(m) ==
    attr_calls[m + Cardinality({j \in 1..(m - 1) : TypeAt(j) = T_SUBNET})]

\* the schema entry of a type
Configured(rtype) ==
    \E n \in 1..Len(resource_configs) : resource_configs[n].terraform_type = rtype
ConfigFor(rtype) ==
    resource_configs[Max({n \in 1..Len(resource_configs) :
                             resource_configs[n].terraform_type = rtype})]

\* the line of locals.tf that stands for the m-th header: the RankInType(m)-th
\* line after the opening line of its type's mapping
MapOpenPositions(rtype) ==
    {p \in 1..Len(locals_tf) : locals_tf[p] = LMapOpen(ConfigFor(rtype).output_key)}
LineOf(m) ==
    IF MapOpenPositions(TypeAt(m)) = {} THEN LText("<no mapping>")
    ELSE LET p == Min(MapOpenPositions(TypeAt(m))) + RankInType(m)
         IN  IF p > Len(locals_tf) THEN LText("<no line>") ELSE locals_tf[p]

\* the key template with each placeholder replaced by the value of the
\* depth-zero attribute of that name
RECURSIVE Render(_, _)
Render(template, body) ==
    IF template = <<>> THEN <<>>
    ELSE <<IF Head(template).k = "placeholder"
           THEN DepthZeroValue(body, Head(template).attr)
           ELSE Head(template).text>>
         \o Render(Tail(template), body)

Renderable(template, body) ==
    \A n \in 1..Len(template) :
        template[n].k = "placeholder" => DepthZeroPositions(body, template[n].attr) # {}

\* C17: the key of a resource of a composite-key type is its key template with
\* each ${placeholder} replaced by the value of the depth-zero attribute of
\* that name.
C17_CompositeKeyFollowsTemplate ==
    pc = "locals_done" =>
        \A m \in 1..Len(GenHeaders) :
            LET at == GenHeaders[m]
                rtype == TypeAt(m)
            IN  (/\ Configured(rtype)
                 /\ ConfigFor(rtype).key_attribute = "composite"
                 /\ ConfigFor(rtype).key_template # NoTemplate
                 /\ IsClosed(at)
                 /\ Renderable(ConfigFor(rtype).key_template, BodyOf(at)))
                => LineOf(m) = LEntry(Render(ConfigFor(rtype).key_template, BodyOf(at)),
                                      rtype, NameAt(m))

\* C17, the example of the claim: under ${virtual_network_name}/${name} the
\* subnet sub1 with name sub-a in vnet-a is keyed vnet-a/sub-a.
C17_ExampleReached ==
    /\ pc = "locals_done"
    /\ main_tf = <<G_SUBNET, G_NAME_A, G_VNET_NAME, G_CLOSE>>
    /\ ConfigFor(T_SUBNET).key_template = TemplateVnetName
    /\ LineOf(1) = LEntry(<<"vnet-a", "/", "sub-a">>, T_SUBNET, "sub1")

\* the types of the input that the schema knows
MappedTypes == {TypeAt(m) : m \in {j \in 1..Len(GenHeaders) : Configured(TypeAt(j))}}
CountOfType(rtype) == Cardinality({j \in 1..Len(GenHeaders) : TypeAt(j) = rtype})

\* C18: a closed resource block of a configured type without a depth-zero name
\* has a warning line in place of its entry in the mapping of its type, and
\* every closed resource block of a configured type with a depth-zero name has
\* its entry; the mapping has one line for each resource of the type.
C18_UnnamedResourceOmitted ==
    pc = "locals_done" =>
        /\ \A m \in 1..Len(GenHeaders) :
              (Configured(TypeAt(m)) /\ IsClosed(GenHeaders[m]))
              => IF DepthZeroPositions(BodyOf(GenHeaders[m]), "name") = {}
                 THEN LineOf(m) = LWarning(NameAt(m))
                 ELSE /\ LineOf(m).k = "entry"
                      /\ LineOf(m).tf_ref = TfRef(TypeAt(m), NameAt(m))
        /\ \A rtype \in MappedTypes :
              /\ MapOpenPositions(rtype) # {}
              /\ LET p == Min(MapOpenPositions(rtype)) + CountOfType(rtype) + 1
                 IN  p <= Len(locals_tf) /\ locals_tf[p] = LText("  }")

\* C18 witness: subnet sub1 has no name and subnet sub2, after it, has one;
\* sub1 has a warning line and sub2 its entry.
C18_Witness ==
    /\ pc = "locals_done"
    /\ main_tf = <<G_SUBNET, G_CLOSE, G_SUBNET2>>
    /\ Configured(T_SUBNET)
    /\ LineOf(1) = LWarning("sub1")
    /\ LineOf(2) = LEntry(<<"sub-b">>, T_SUBNET, "sub2")

SplitReturned == pc \in {"done", "exit_0"}

\* C20: a run with --dry-run creates no output directory and writes no file.
C20_DryRunWritesNothing ==
    dry_run => (output_dir = "absent" /\ written = <<>>)

\* C20, the run of the claim: --dry-run was announced on the output, and the
\* input file has a block.
C20_DryRunAnnounced ==
    /\ SplitReturned
    /\ dry_run
    /\ <<"DRY RUN - no files will be written">> \in Range(stdout)
    /\ blocks # <<>>
    /\ output_dir = "present"
    /\ written # <<>>

(***************************************************************************)
(* Claims about the extent of a block (SpecMain)                           *)
(***************************************************************************)
\* the last line of the k-th emitted block
EndLine(k) == starts[k] + Len(blocks[k].block_text) - 1

\* the lines from s on at which '{' minus '}' counted from line s is 0
BalancePoints(lines, s) == {e \in s..Len(lines) : NetBraces(lines, s, e) = 0}

\* the lines after line e that begin with a block header at the first character
HeadersAfter(lines, e) == {n \in (e + 1)..Len(lines) : IsHeaderLine(lines[n])}

\* C21: an emitted block is the lines from its header through the first line at
\* which the brace count returns to 0; the next emitted block starts at the
\* first header line after that end line, so no line belongs to two blocks and
\* no header within a block is emitted as a block of its own.
C21_BlockEndsAtFirstBalance ==
    Parsed =>
        \A k \in 1..Len(blocks) :
            /\ blocks[k].block_text = SubSeq(content, starts[k], EndLine(k))
            /\ BalancePoints(content, starts[k]) # {}
               => EndLine(k) = Min(BalancePoints(content, starts[k]))
            /\ \A l \in 1..Len(blocks) :
                  l # k => starts[l] \notin starts[k]..EndLine(k)
            /\ IF k < Len(blocks)
               THEN /\ HeadersAfter(content, EndLine(k)) # {}
                    /\ starts[k + 1] = Min(HeadersAfter(content, EndLine(k)))
               ELSE HeadersAfter(content, EndLine(k)) = {}

\* C21 witness: a data header stands inside the first block, which ends at the
\* line that balances its own brace; the next block starts on the line after.
C21_Witness ==
    /\ Parsed
    /\ content = <<L_RES, L_DATA1, L_CLOSE, L_RES>>
    /\ starts = <<1, 4>>
    /\ EndLine(1) = 3
    /\ blocks[1].block_text = <<L_RES, L_DATA1, L_CLOSE>>

(***************************************************************************)
(* Claims about prefix matching (SpecClassify)                             *)
(***************************************************************************)
\* the entries of the mapping whose type is a prefix of the declared type
PrefixRules(m, rtype) == {n \in 1..Len(m) : IsPrefixOf(m[n].rtype, rtype)}

\* the declared type reaches the prefix scan and some mapped type is a prefix
PrefixCase ==
    /\ pc = "classified"
    /\ ~Skipped(config, resource_type)
    /\ RuleIndexes(config.mappings, resource_type) = {}
    /\ PrefixRules(config.mappings, resource_type) # {}

\* the mapped prefix that comes first in configuration order, and the longest
FirstPrefix == config.mappings[Min(PrefixRules(config.mappings, resource_type))].rtype
LongestPrefix ==
    LET P == PrefixRules(config.mappings, resource_type)
    IN  config.mappings[CHOOSE n \in P :
                            \A l \in P : Len(config.mappings[l].rtype)
                                         <= Len(config.mappings[n].rtype)].rtype

\* C22: a declared type without an exact entry gets the bucket of the first
\* mapped type, in configuration order, that is a prefix of it.
C22_FirstPrefixInConfigOrder ==
    PrefixCase => target = RecordedBucket(config.mappings, FirstPrefix)

\* C22 witness: two mapped types in different buckets are prefixes of the
\* declared type, and the bucket of the one configured first was returned.
C22_Witness ==
    /\ PrefixCase
    /\ config.mappings = <<Rule("networking.tf", T_MSSQL_SERVER),
                           Rule("databases-sql.tf", T_MSSQL)>>
    /\ resource_type = T_MSSQL_SERVER_POLICY
    /\ target = "networking.tf"

\* C23 as stated: a declared type without an exact entry gets the bucket of the
\* longest mapped type that is a prefix of it, whatever the configuration order.
C23_LongestPrefixWins ==
    PrefixCase => target = RecordedBucket(config.mappings, LongestPrefix)

\* C23 (amended): of two mapped prefixes of the declared type, the one that
\* comes first in configuration order decides, also when the other is longer;
\* the longest prefix decides only when no shorter one precedes it.
C23_ShorterPrefixWinsWhenFirst ==
    PrefixCase =>
        \A a, b \in PrefixRules(config.mappings, resource_type) :
            (a < b /\ \A c \in PrefixRules(config.mappings, resource_type) : a <= c)
            => /\ target = RecordedBucket(config.mappings, config.mappings[a].rtype)
               /\ (RecordedBucket(config.mappings, config.mappings[a].rtype)
                      # RecordedBucket(config.mappings, config.mappings[b].rtype)
                   => target # RecordedBucket(config.mappings, config.mappings[b].rtype))

\* C23 witness: azurerm_mssql is configured before azurerm_mssql_server, in
\* another bucket, and the auditing policy went to the bucket of azurerm_mssql.
C23_Witness ==
    /\ PrefixCase
    /\ config.mappings = <<Rule("networking.tf", T_MSSQL),
                           Rule("databases-sql.tf", T_MSSQL_SERVER)>>
    /\ resource_type = T_MSSQL_SERVER_POLICY
    /\ LongestPrefix = T_MSSQL_SERVER
    /\ target = "networking.tf"

(***************************************************************************)
(* Claims about the rooted tree (SpecGraph)                                *)
(***************************************************************************)
\* the addresses of the graph, the edges into and out of an address
GraphNodes == {resources[n][1] : n \in 1..Len(resources)}
EdgesOut(id) ==
    UNION {dependencies[n][2] : n \in {m \in 1..Len(dependencies) : dependencies[m][1] = id}}
EdgesIn(id) == {src \in GraphNodes : id \in EdgesOut(src)}
ZeroIncoming == {id \in GraphNodes : EdgesIn(id) = {}}
EdgeCount ==
    SumOver(1..Len(dependencies),
            [n \in 1..Len(dependencies) |-> Cardinality(dependencies[n][2])])

\* the lines of the tree that name an address, and the addresses named
TreeNodeLines == {n \in 1..Len(tree) : "resource_id" \in DOMAIN tree[n]}
TreeListed == {tree[n].resource_id : n \in TreeNodeLines}

\* C24: the roots of the tree are exactly the addresses without incoming edge;
\* only when there is none are they pseudo-roots: three addresses (all, when
\* there are fewer) such that no other address has fewer outgoing edges.  The
\* lines at the left margin are lines of roots.
C24_RootsOrThreePseudoRoots ==
    pc = "tree_done" =>
        LET R == Range(tree_roots)
        IN  /\ Len(tree_roots) = Cardinality(R)
            /\ ZeroIncoming # {} => R = ZeroIncoming
            /\ ZeroIncoming = {} =>
                  /\ R \subseteq GraphNodes
                  /\ Cardinality(R) = IF Cardinality(GraphNodes) < 3
                                      THEN Cardinality(GraphNodes) ELSE 3
                  /\ \A r \in R : \A x \in GraphNodes \ R :
                        Cardinality(EdgesOut(r)) <= Cardinality(EdgesOut(x))
            /\ \A n \in TreeNodeLines : tree[n].prefix = <<>> => tree[n].resource_id \in R

\* C24 witness: four addresses, each with an incoming edge; three of them are
\* pseudo-roots and the fourth has more outgoing edges than each of them.
C24_Witness ==
    /\ pc = "tree_done"
    /\ Cardinality(GraphNodes) = 4
    /\ ZeroIncoming = {}
    /\ Len(tree_roots) = 3
    /\ \E x \in GraphNodes \ Range(tree_roots) :
          \A r \in Range(tree_roots) : Cardinality(EdgesOut(r)) < Cardinality(EdgesOut(x))

\* the calls of print_tree for an address that got past the visited test
Expansions(id) ==
    {n \in 1..Len(tree_calls) : tree_calls[n].resource_id = id /\ tree_calls[n].expanded}

\* C25: every address stands on at most one line of the tree; a call of
\* print_tree for an address expands it at most once, and only the first call
\* for it does; the traversal has ended, after at most one call for every root
\* and one for every edge.
C25_VisitedIsGlobal ==
    pc = "tree_done" =>
          /\ \A a, b \in TreeNodeLines :
                tree[a].resource_id = tree[b].resource_id => a = b
          /\ \A id \in GraphNodes : Cardinality(Expansions(id)) <= 1
          /\ \A n \in 1..Len(tree_calls) :
                tree_calls[n].expanded
                <=> (\A m \in 1..(n - 1) : tree_calls[m].resource_id # tree_calls[n].resource_id)
          /\ Len(tree_calls) <= Len(tree_roots) + EdgeCount

\* C25 witness: two addresses depend on each other and a third one is reached
\* from two roots; some call found its address visited already.
C25_Witness ==
    /\ pc = "tree_done"
    /\ \E a, b \in GraphNodes : a # b /\ a \in EdgesOut(b) /\ b \in EdgesOut(a)
    /\ \E c \in GraphNodes, r1, r2 \in Range(tree_roots) :
          r1 # r2 /\ c \in EdgesOut(r1) /\ c \in EdgesOut(r2)
    /\ \E n \in 1..Len(tree_calls) : ~tree_calls[n].expanded

\* C26: every address of the graph stands on a line of the tree.
C26_EveryAddressListed ==
    pc = "tree_done" => GraphNodes \subseteq TreeListed

\* C26, the graph of the claim: one address is a root and two others depend on
\* each other and are reached from no root; the tree lists the root only.
C26_UnreachedCycle ==
    /\ pc = "tree_done"
    /\ Cardinality(GraphNodes) = 3
    /\ Len(tree_roots) = 1
    /\ \E a, b \in GraphNodes \ Range(tree_roots) :
          a # b /\ EdgesOut(a) = {b} /\ EdgesOut(b) = {a}
    /\ TreeListed = Range(tree_roots)

(***************************************************************************)
(* Claims about the flowchart (SpecGraph)                                  *)
(***************************************************************************)
MermaidNodes == {n \in 1..Len(mermaid) : mermaid[n].k = "node"}
MermaidEdges == {n \in 1..Len(mermaid) : mermaid[n].k = "edge"}

\* C27: two node lines of the flowchart with different addresses have different
\* identifiers, and the edges of the graph render as that many different lines.
C27_SanitizeIsInjective ==
    pc = "mermaid_done" =>
        /\ \A a, b \in MermaidNodes :
              mermaid[a].label # mermaid[b].label => mermaid[a].safe_id # mermaid[b].safe_id
        /\ Cardinality({mermaid[n] : n \in MermaidEdges}) = EdgeCount

\* C27, the addresses of the failing input: azurerm_subnet.sub-1 and
\* azurerm_subnet.sub_1 are both the node azurerm_subnet_sub_1, and two edges
\* that leave the one and the other for the same address are one line written
\* twice.
C27_HyphenAndUnderscoreCollide ==
    /\ pc = "mermaid_done"
    /\ \E a, b \in MermaidNodes :
          /\ mermaid[a].label = <<T_SUBNET, N_SUB_DASH>>
          /\ mermaid[b].label = <<T_SUBNET, N_SUB_UNDER>>
          /\ mermaid[a].safe_id = mermaid[b].safe_id
    /\ \E a, b \in MermaidEdges : a # b /\ mermaid[a] = mermaid[b]

(***************************************************************************)
(* Claims about locals.tf and outputs.tf together (SpecOutputs)            *)
(***************************************************************************)
\* the output blocks of schema entries: the positions of their first lines
OutputHeads ==
    {p \in 1..Len(outputs_tf) :
        outputs_tf[p].k = "output" /\ outputs_tf[p].output_key # "_metadata"}

\* the lines of the output block that starts at p: up to its closing brace
OutputBlockEnd(p) ==
    Min({q \in p..Len(outputs_tf) : outputs_tf[q] = LText("}")})
ForLines(p) == {q \in p..OutputBlockEnd(p) : outputs_tf[q].k = "for"}

\* the declarations of the local map of that name in locals.tf, and the
\* entries of the declaration at position d
Declarations(local) ==
    {d \in 1..Len(locals_tf) :
        locals_tf[d].k = "map_open" /\ <<"all_", locals_tf[d].output_key>> = local}
DeclarationEnd(d) ==
    Min({q \in d..Len(locals_tf) : locals_tf[q] = LText("  }")})
EntriesOf(d) == {q \in d..DeclarationEnd(d) : locals_tf[q].k = "entry"}

\* C28: every output block of a schema entry iterates over one map, the local
\* all_<key> of its own key; locals.tf, written from the same resources and
\* schema, declares that map, and the declaration holds at least one entry.
C28_OutputsIterateDeclaredLocals ==
    pc = "outputs_done" =>
        \A p \in OutputHeads :
            /\ Cardinality(ForLines(p)) = 1
            /\ \A q \in ForLines(p) :
                  /\ outputs_tf[q].local = <<"all_", outputs_tf[p].output_key>>
                  /\ Declarations(outputs_tf[q].local) # {}
                  /\ \A d \in Declarations(outputs_tf[q].local) : EntriesOf(d) # {}

\* C28 witness: the subnets have a named resource and one without a name, the
\* virtual network type is not in the schema; outputs.tf holds the block of
\* the subnets only, and locals.tf a warning next to the entry.
C28_Witness ==
    /\ pc = "outputs_done"
    /\ DictHas(parsed, T_VNET) /\ DictHas(parsed, T_SUBNET)
    /\ {outputs_tf[p].output_key : p \in OutputHeads} = {"subnets"}
    /\ \E q \in 1..Len(locals_tf) : locals_tf[q].k = "warning"
    /\ \E q \in 1..Len(locals_tf) : locals_tf[q].k = "skipped_unknown"

(***************************************************************************)
(* One text read by the three scanners                                     *)
(***************************************************************************)
\* a sub-block that holds a sub-block, on one line:  a { b { } }
S_NESTED2 == Line(TRUE, <<OpenTok, OpenTok, CloseTok, CloseTok>>)

\* an unindented header, an indented one, nested sub-blocks, braces
ScanLines == {G_SUBNET, L_INDENTED, S_NESTED2, L_OPEN, L_CLOSE}

\* the same text is main.tf of generate_outputs, the input file of the
\* splitter and the only file of the directory of dependency_graph
InitScanners ==
    /\ pc = "gen_parse"
    /\ \E lines \in SeqsUpTo(ScanLines, MaxScanLines) :
          /\ main_tf = lines
          /\ content = lines
          /\ tf_files = <<lines>>
    /\ match_idx = 1
    /\ parsed = <<>>
    /\ attr_calls = <<>>
    /\ resource_configs = <<>>
    /\ locals_tf = <<>>
    /\ outputs_tf = <<>>
    /\ i = 1
    /\ blocks = <<>>
    /\ starts = <<>>
    /\ file_blocks = <<>>
    /\ skipped = <<>>
    /\ written = <<>>
    /\ output_dir = "absent"
    /\ dry_run = FALSE
    /\ input_exists = TRUE
    /\ stdout = <<>>
    /\ concat_order = <<>>
    /\ reparsed = <<>>
    /\ file_idx = 1
    /\ resources = <<>>
    /\ dependencies = <<>>
    /\ dot = <<>>
    /\ tree = <<>>
    /\ tree_roots = <<>>
    /\ tree_calls = <<>>
    /\ mermaid = <<>>
    /\ ConfigIdle /\ ClassifierIdle
    /\ ValidatorIdle

\* parse_tf_blocks(content), after TerraformParser.parse and before _parse_file
ScanSplitter ==
    /\ pc = "gen_parsed"
    /\ blocks' = parse_tf_blocks(content)
    /\ i' = Len(content) + 1
    /\ pc' = "dep_parse"
    /\ UNCHANGED <<content, starts, file_blocks, skipped, written, output_dir, dry_run,
                   input_exists, stdout, concat_order, reparsed>>
    /\ UNCHANGED <<cfgVars, classifierVars, genVars, depVars>>
    /\ UNCHANGED valVars

NextScanners ==
    ParseMatch \/ ParseMatchesDone \/ ScanSplitter \/ ParseFile \/ ExtractDependencies

SpecScanners == InitScanners /\ [][NextScanners]_vars

(***************************************************************************)
(* Claims about the three scanners (SpecScanners)                          *)
(***************************************************************************)
\* the addresses of the resource blocks each scanner found
SplitterAddresses ==
    {<<blocks[n].resource_type, blocks[n].resource_name>> :
        n \in {m \in 1..Len(blocks) : blocks[m].block_type = "resource"}}
GeneratorAddresses ==
    UNION {{<<parsed[n][1], parsed[n][2][m].resource_name>> : m \in 1..Len(parsed[n][2])} :
              n \in 1..Len(parsed)}
GraphAddresses == {resources[n][1] : n \in 1..Len(resources)}

\* C29: the splitter, generate_outputs and dependency_graph find the same set
\* of resource addresses in the same text.
C29_ScannersAgree ==
    pc = "dep_parsed" =>
        /\ SplitterAddresses = GeneratorAddresses
        /\ GeneratorAddresses = GraphAddresses

\* C29, a text of the claim: the final block is not closed; the splitter and
\* generate_outputs find it, dependency_graph does not.
C29_UnclosedFinalBlock ==
    /\ pc = "dep_parsed"
    /\ content = <<G_SUBNET, L_OPEN>>
    /\ SplitterAddresses = {<<T_SUBNET, "sub1">>}
    /\ GeneratorAddresses = {<<T_SUBNET, "sub1">>}
    /\ GraphAddresses = {}

(***************************************************************************)
(* validate_migration.py: terraform_plan and RGValidator._check_plan       *)
(***************************************************************************)
\* the words of a line of terraform's output, as line.split() gives them
Word(w) == [k |-> "word", w |-> w]
Num(n) == [k |-> "num", v |-> n]

PlanLine(add, change, destroy) ==
    <<Word("Plan:"), Num(add), Word("to"), Word("add,"), Num(change), Word("to"),
      Word("change,"), Num(destroy), Word("to"), Word("destroy.")>>
NoChangesLine ==
    <<Word("No"), Word("changes."), Word("Your"), Word("infrastructure"), Word("matches"),
      Word("the"), Word("configuration.")>>
RefreshLine == <<Word("Refreshing"), Word("state...")>>
OutputsLine == <<Word("Changes"), Word("to"), Word("Outputs:")>>

\* what a run of `terraform plan -detailed-exitcode` does
TerraformRun(kind, add, change, destroy) ==
    [kind |-> kind, add |-> add, change |-> change, destroy |-> destroy]

\* subprocess.run of the command: the return code and the output, or the
\* exception raised
Subprocess(run) ==
    CASE run.kind = "no_changes" ->
            [raised |-> "none", returncode |-> 0, stdout |-> <<RefreshLine, NoChangesLine>>,
             stderr |-> <<>>]
      [] run.kind = "changes" ->
            [raised |-> "none", returncode |-> 2,
             stdout |-> <<RefreshLine, PlanLine(run.add, run.change, run.destroy)>>,
             stderr |-> <<>>]
      [] run.kind = "outputs_only" ->
            [raised |-> "none", returncode |-> 2, stdout |-> <<RefreshLine, OutputsLine>>,
             stderr |-> <<>>]
      [] run.kind = "error" ->
            [raised |-> "none", returncode |-> 1, stdout |-> <<>>,
             stderr |-> <<Word("Error:")>>]
      [] run.kind = "error_after_refresh" ->
            [raised |-> "none", returncode |-> 1, stdout |-> <<RefreshLine>>,
             stderr |-> <<Word("Error:")>>]
      [] run.kind = "timeout" ->
            [raised |-> "TimeoutExpired", returncode |-> 0, stdout |-> <<>>, stderr |-> <<>>]
      [] OTHER ->
            [raised |-> "Exception", returncode |-> 0, stdout |-> <<>>, stderr |-> <<>>]

\* run_terraform_command: (success, stdout, stderr)
run_terraform_command(run) ==
    LET result == Subprocess(run)
    IN  CASE result.raised = "TimeoutExpired" ->
                <<FALSE, <<>>, <<Word("Command timed out")>>>>
          [] result.raised = "Exception" -> <<FALSE, <<>>, <<Word("str(e)")>>>>
          [] OTHER -> <<result.returncode = 0, result.stdout, result.stderr>>

\* "No changes" in stdout
HasNoChanges(out) ==
    \E l \in 1..Len(out) : \E n \in 1..(Len(out[l]) - 1) :
        out[l][n] = Word("No") /\ out[l][n + 1] \in {Word("changes"), Word("changes.")}

\* 'Plan:' in line
HasPlan(line) == \E n \in 1..Len(line) : line[n] = Word("Plan:")

\* the loop over enumerate(parts): int(parts[i-1]) for every part 'to' with
\* i > 0, a ValueError passed over
RECURSIVE CountParts(_, _)
CountParts(parts, n) ==
    IF n > Len(parts) THEN 0
    ELSE (IF parts[n] = Word("to") /\ n > 1 /\ parts[n - 1].k = "num"
          THEN parts[n - 1].v ELSE 0)
         + CountParts(parts, n + 1)

\* the loop over stdout.split('\n')
RECURSIVE CountChanges(_, _)
CountChanges(out, l) ==
    IF l > Len(out) THEN 0
    ELSE (IF HasPlan(out[l]) THEN CountParts(out[l], 1) ELSE 0)
         + CountChanges(out, l + 1)

\* terraform_plan after the command: success is not read
terraform_plan(success, out) ==
    IF HasNoChanges(out) THEN <<TRUE, 0>>
    ELSE LET changes == CountChanges(out, 1)
         IN  <<changes = 0, changes>>

\* the runs of terraform: a clean plan, a plan with changes, a plan that
\* changes outputs only, failures, a timeout, a command that cannot be started
TerraformRuns ==
    {TerraformRun(kind, 0, 0, 0) :
        kind \in {"no_changes", "outputs_only", "error", "error_after_refresh", "timeout",
                  "not_started"}}
    \cup ({TerraformRun("changes", a, c, d) :
             a \in 0..MaxChanges, c \in 0..MaxChanges, d \in 0..MaxChanges}
          \ {TerraformRun("changes", 0, 0, 0)})

InitValidate ==
    /\ pc = "check_plan"
    /\ terraform \in TerraformRuns
    /\ plan_run = <<>>
    /\ plan_result = <<>>
    /\ errors = <<>>
    /\ printed = <<>>
    /\ ConfigIdle /\ ClassifierIdle /\ SplitterIdle /\ GenIdle /\ DepIdle

\* _check_plan prints that it checks, terraform_plan runs the command
RunTerraformCommand ==
    /\ pc = "check_plan"
    /\ printed' = Append(printed, "Checking for drift...")
    /\ plan_run' = run_terraform_command(terraform)
    /\ pc' = "plan_ran"
    /\ UNCHANGED <<terraform, plan_result, errors>>
    /\ UNCHANGED <<cfgVars, classifierVars, splitterVars, genVars, depVars>>

\* terraform_plan reads the output and returns
TerraformPlan ==
    /\ pc = "plan_ran"
    /\ plan_result' = terraform_plan(plan_run[1], plan_run[2])
    /\ pc' = "plan_returned"
    /\ UNCHANGED <<terraform, plan_run, errors, printed>>
    /\ UNCHANGED <<cfgVars, classifierVars, splitterVars, genVars, depVars>>

\* _check_plan after terraform_plan
CheckPlan ==
    /\ pc = "plan_returned"
    /\ IF plan_result[1]
       THEN /\ printed' = Append(printed, "No drift detected")
            /\ errors' = errors
       ELSE /\ errors' = Append(errors, <<"Drift detected: ", plan_result[2], " changes">>)
            /\ printed' = printed
    /\ pc' = "plan_checked"
    /\ UNCHANGED <<terraform, plan_run, plan_result>>
    /\ UNCHANGED <<cfgVars, classifierVars, splitterVars, genVars, depVars>>

NextValidate == RunTerraformCommand \/ TerraformPlan \/ CheckPlan

SpecValidate == InitValidate /\ [][NextValidate]_vars

(***************************************************************************)
(* Claims about the drift check (SpecValidate)                             *)
(***************************************************************************)
\* the plan could not be computed: the command failed, timed out, could not
\* be started, or ended without a 'Plan:' line and without 'No changes'
NotComputed ==
    terraform.kind \in {"error", "error_after_refresh", "timeout", "not_started", "outputs_only"}

\* C30: terraform_plan returns (True, 0) only for a clean plan and (False, N),
\* N the sum of the three counts, for a plan with changes; for a plan that
\* could not be computed it does not return a clean result, and _check_plan
\* does not print 'No drift detected'.
C30_CleanOnlyWhenPlanIsClean ==
    pc \in {"plan_returned", "plan_checked"} =>
        /\ plan_result = <<TRUE, 0>> => terraform.kind = "no_changes"
        /\ terraform.kind = "changes" =>
              plan_result = <<FALSE, terraform.add + terraform.change + terraform.destroy>>
        /\ NotComputed => ~plan_result[1]
        /\ NotComputed /\ pc = "plan_checked" =>
              \A n \in 1..Len(printed) : printed[n] # "No drift detected"

\* C30, the failing run: the command timed out, terraform_plan returned
\* (True, 0) and _check_plan printed 'No drift detected'.
C30_TimeoutReportedClean ==
    /\ pc = "plan_checked"
    /\ terraform.kind = "timeout"
    /\ plan_run = <<FALSE, <<>>, <<Word("Command timed out")>>>>
    /\ plan_result = <<TRUE, 0>>
    /\ printed = <<"Checking for drift...", "No drift detected">>
    /\ errors = <<>>

=============================================================================
